---- MODULE Spec2Model ----
(***************************************************************************)
(* Request pipeline of the SaintsHub backend: bearer authentication,       *)
(* the admin elevation check, the admin controllers and the nested-array   *)
(* deletion handlers of the dashboard routes.                              *)
(*                                                                         *)
(* Every request is one action: the middleware chain of the route and its  *)
(* handler, with every store read and write it makes.  `last` records the  *)
(* request just handled, the store it started from, the first response     *)
(* that reached the client and the steps the code went through.            *)
(***************************************************************************)
EXTENDS Integers, Sequences, FiniteSets, TLC

VARIABLES users, churches, now, approvedAt, last, served, inflight, production

vars == <<users, churches, now, approvedAt, last, served, inflight, production>>

---------------------------------------------------------------------------
(* Bounds of the model *)

\* longest array (gallery, songs, ...) a church starts with
MaxLen == 2

\* last tick of the clock
MaxTime == 2

\* ticks a token lives (config.jwt.expiresIn, in ticks of the model clock)
TokenLife == 2

\* requests handled in one run of the nested-deletion routes
MaxRequests == 2

---------------------------------------------------------------------------
(* Identifiers *)

UserIds == {"u1", "u2"}

ChurchIds == {"c1"}

\* a well-formed id under which no church is stored
MissingChurchId == "c0"

\* root-level array fields reached through deleteNestedItem
Fields == {"gallery", "oldServices", "songs", "liveServices"}

\* arrays under the securities block
SecurityFields == {"deacons", "trustees"}

Emails == [u \in UserIds |-> IF u = "u1" THEN "e1" ELSE "e2"]

Times == 0..MaxTime

NoTime == 0 - 1

---------------------------------------------------------------------------
(* JavaScript numbers and strings, as far as the handlers use them *)

\* the number NaN: every comparison with it is false
NaN == [nan |-> TRUE, val |-> 0]

Num(n) == [nan |-> FALSE, val |-> n]

isNaN(x) == x.nan

\* x < n
Lt(x, n) == ~x.nan /\ x.val < n

\* x >= n
Ge(x, n) == ~x.nan /\ x.val >= n

DigitChars == <<"0", "1", "2", "3", "4", "5", "6", "7", "8", "9">>

IsDigit(c) == \E k \in 1..Len(DigitChars) : DigitChars[k] = c

DigitVal(c) == (CHOOSE k \in 1..Len(DigitChars) : DigitChars[k] = c) - 1

IsSpace(c) == c = " "

RECURSIVE StripLeft(_)
\* the string without its leading white space
StripLeft(s) ==
  IF s # <<>> /\ IsSpace(Head(s)) THEN StripLeft(Tail(s)) ELSE s

RECURSIVE DigitPrefix(_)
\* the longest prefix of s made of decimal digits
DigitPrefix(s) ==
  IF s # <<>> /\ IsDigit(Head(s)) THEN <<Head(s)>> \o DigitPrefix(Tail(s)) ELSE <<>>

RECURSIVE DigitsValue(_, _)
\* the value of a digit string, acc being the value read so far
DigitsValue(s, acc) ==
  IF s = <<>> THEN acc ELSE DigitsValue(Tail(s), 10 * acc + DigitVal(Head(s)))

\* parseInt(string, 10): leading white space is skipped, one sign is read,
\* then digits up to the first other character; NaN when there is no digit
parseInt(str) ==
  LET s == StripLeft(str)
      neg == s # <<>> /\ Head(s) = "-"
      body == IF s # <<>> /\ Head(s) \in {"-", "+"} THEN Tail(s) ELSE s
      ds == DigitPrefix(body)
  IN IF ds = <<>> THEN NaN
     ELSE Num(IF neg THEN 0 - DigitsValue(ds, 0) ELSE DigitsValue(ds, 0))

\* indexStr ? parseInt(indexStr, 10) : NaN
ParseIndex(indexStr) == IF indexStr # <<>> THEN parseInt(indexStr) ELSE NaN

\* ToIntegerOrInfinity of the start argument, then clamped as
\* Array.prototype.splice does: NaN is 0, a negative start counts from the end
SpliceStart(start, len) ==
  IF start.nan THEN 0
  ELSE IF start.val < 0 THEN (IF len + start.val < 0 THEN 0 ELSE len + start.val)
  ELSE IF start.val > len THEN len ELSE start.val

\* array.splice(start) with the delete count forgotten: everything from start
\* on is removed
spliceToEnd(array, start) == SubSeq(array, 1, SpliceStart(start, Len(array)))

\* array.splice(start, 1): the array afterwards
splice(array, start) ==
  LET len == Len(array)
      from == SpliceStart(start, len)
      count == IF len - from < 1 THEN len - from ELSE 1
  IN [k \in 1..(len - count) |-> IF k <= from THEN array[k] ELSE array[k + count]]

---------------------------------------------------------------------------
(* Bearer tokens and the Authorization header *)

\* A JSON web token as jwt.verify sees it: whether its signature matches the
\* server secret, its payload (an id when hasId, the time of issue, any
\* further claim such as an admin flag); it expires TokenLife after iat.
Token(sig, hasId, sub, iat, adm) ==
  [sig |-> sig, hasId |-> hasId, sub |-> sub, iat |-> iat, adm |-> adm]

NoToken == Token("bad", FALSE, "", 0, FALSE)

\* A header value is a sequence of pieces: a literal run of characters
\* without a space ("Bearer", "bearer", "Basic", "x"), a single space, or
\* the compact serialisation of a token (which holds no space and does not
\* begin with "Bearer").
Lit(s) == [isTok |-> FALSE, lit |-> s, tok |-> NoToken]

Tok(t) == [isTok |-> TRUE, lit |-> "", tok |-> t]

Space == Lit(" ")

\* req.headers.authorization: absent, or a value
NoHeader == [present |-> FALSE, parts |-> <<>>]

Header(parts) == [present |-> TRUE, parts |-> parts]

\* authorization.startsWith('Bearer')
StartsWithBearer(hdr) ==
  hdr.parts # <<>> /\ ~hdr.parts[1].isTok /\ hdr.parts[1].lit = "Bearer"

RECURSIVE SplitSpace(_)
\* authorization.split(' '): the segments between single spaces
SplitSpace(parts) ==
  IF parts = <<>> THEN << <<>> >>
  ELSE IF parts[1] = Space THEN << <<>> >> \o SplitSpace(Tail(parts))
  ELSE LET rest == SplitSpace(Tail(parts))
       IN << <<parts[1]>> \o rest[1] >> \o Tail(rest)

\* lines 27-33: the token is the second segment of a header that starts
\* with "Bearer"; def is FALSE when the variable stays undefined
ExtractToken(hdr) ==
  IF hdr.present /\ StartsWithBearer(hdr)
  THEN LET segs == SplitSpace(hdr.parts)
       IN IF Len(segs) >= 2 THEN [def |-> TRUE, seg |-> segs[2]]
          ELSE [def |-> FALSE, seg |-> <<>>]
  ELSE [def |-> FALSE, seg |-> <<>>]

\* !token: undefined or the empty string
TokenMissing(token) == ~token.def \/ token.seg = <<>>

\* exp claim of a token
ExpOf(t) == t.iat + TokenLife

\* jwt.verify(token, secret): the error it throws ("none" when it returns the
\* payload).  A string that is not one well-formed token, or a signature that
\* does not match, is a JsonWebTokenError; the expiry is looked at after the
\* signature.
jwtVerify(seg, t) ==
  IF Len(seg) # 1 \/ ~seg[1].isTok THEN [err |-> "JsonWebTokenError", payload |-> NoToken]
  ELSE IF seg[1].tok.sig # "good" THEN [err |-> "JsonWebTokenError", payload |-> NoToken]
  ELSE IF t >= ExpOf(seg[1].tok) THEN [err |-> "TokenExpiredError", payload |-> NoToken]
  ELSE [err |-> "none", payload |-> seg[1].tok]

\* err instanceof cls, for the error classes of jsonwebtoken:
\* TokenExpiredError and NotBeforeError extend JsonWebTokenError
InstanceOf(err, cls) ==
  \/ err = cls
  \/ cls = "JsonWebTokenError" /\ err \in {"TokenExpiredError", "NotBeforeError"}

\* the AppError of lines 45-55 for an error thrown by jwt.verify
VerifyErrorMessage(err) ==
  IF InstanceOf(err, "JsonWebTokenError") THEN "Invalid token. Please log in again."
  ELSE IF InstanceOf(err, "TokenExpiredError") THEN "Your token has expired. Please log in again."
  ELSE "Token verification failed."

\* req.user when nobody is authenticated
NoUser == [id |-> "", email |-> ""]

AuthFail(status, msg, log) ==
  [ok |-> FALSE, status |-> status, msg |-> msg, user |-> NoUser, log |-> log]

\* authenticateUser that trusts a verified token without looking its subject up
authenticateUserNoLookup(hdr, usrs, t) ==
  LET token == ExtractToken(hdr)
      v == jwtVerify(token.seg, t)
  IN IF TokenMissing(token)
     THEN AuthFail(401, "You are not logged in. Please log in to get access.", <<>>)
     ELSE IF v.err # "none" THEN AuthFail(401, VerifyErrorMessage(v.err), <<"jwt.verify">>)
     ELSE IF ~v.payload.hasId THEN AuthFail(401, "Invalid token payload.", <<"jwt.verify">>)
     ELSE [ok |-> TRUE, status |-> 0, msg |-> "",
           user |-> [id |-> v.payload.sub,
                     email |-> IF v.payload.sub \in DOMAIN usrs
                               THEN usrs[v.payload.sub].email ELSE ""],
           log |-> <<"jwt.verify">>]

\* authenticateUser(req, res, next) on the store usrs at time t: either
\* next() with req.user set (ok), or next(new AppError(msg, status))
authenticateUser(hdr, usrs, t) ==
  LET token == ExtractToken(hdr)
  IN IF TokenMissing(token)
     THEN AuthFail(401, "You are not logged in. Please log in to get access.", <<>>)
     ELSE LET v == jwtVerify(token.seg, t)
              log1 == <<"jwt.verify">>
          IN IF v.err # "none" THEN AuthFail(401, VerifyErrorMessage(v.err), log1)
             ELSE IF ~v.payload.hasId THEN AuthFail(401, "Invalid token payload.", log1)
             ELSE LET log2 == Append(log1, "User.findById")
                  IN IF v.payload.sub \notin DOMAIN usrs
                     THEN AuthFail(401, "The user belonging to this token no longer exists.", log2)
                     ELSE [ok |-> TRUE, status |-> 0, msg |-> "",
                           user |-> [id |-> v.payload.sub, email |-> usrs[v.payload.sub].email],
                           log |-> log2]

\* the request as the middleware after authenticateUser sees it: req.user,
\* the headers and whatever admin flag the client put in body, query or headers
Req(reqUser, hdr, flag) == [user |-> reqUser, hdr |-> hdr, flag |-> flag]

\* the admin claim of the token the request carries, FALSE when it has none
TokenAdminClaim(hdr) ==
  LET token == ExtractToken(hdr)
  IN IF TokenMissing(token) \/ Len(token.seg) # 1 \/ ~token.seg[1].isTok THEN FALSE
     ELSE token.seg[1].tok.adm

\* isAdmin that lets a request through on the flag the client supplied
isAdminTrustsFlag(req, usrs) ==
  IF req.user.id = "" THEN AuthFail(401, "Authentication required.", <<>>)
  ELSE IF req.user.id \notin DOMAIN usrs
  THEN AuthFail(401, "User not found.", <<"isAdmin.findById">>)
  ELSE IF ~(usrs[req.user.id].admin \/ req.flag)
  THEN AuthFail(403, "You do not have permission to perform this action.",
                <<"isAdmin.findById">>)
  ELSE [ok |-> TRUE, status |-> 0, msg |-> "", user |-> req.user,
        log |-> <<"isAdmin.findById">>]

\* isAdmin that reads the admin claim of the token instead of the store
isAdminFromToken(req, usrs) ==
  IF req.user.id = "" THEN AuthFail(401, "Authentication required.", <<>>)
  ELSE IF ~TokenAdminClaim(req.hdr)
  THEN AuthFail(403, "You do not have permission to perform this action.", <<>>)
  ELSE [ok |-> TRUE, status |-> 0, msg |-> "", user |-> req.user, log |-> <<>>]

\* isAdmin(req, res, next), run after authenticateUser
isAdmin(req, usrs) ==
  IF req.user.id = "" THEN AuthFail(401, "Authentication required.", <<>>)
  ELSE LET log1 == <<"isAdmin.findById">>
       IN IF req.user.id \notin DOMAIN usrs THEN AuthFail(401, "User not found.", log1)
          ELSE IF ~usrs[req.user.id].admin
          THEN AuthFail(403, "You do not have permission to perform this action.", log1)
          ELSE [ok |-> TRUE, status |-> 0, msg |-> "", user |-> req.user, log |-> log1]

---------------------------------------------------------------------------
(* Church documents *)

\* a value found at an array path of a loaded document
Arr(items) == [isArray |-> TRUE, items |-> items]

\* a value that is not an array (the key is missing: undefined)
NotArr == [isArray |-> FALSE, items |-> <<>>]

\* Array.isArray(v)
IsArray(v) == v.isArray

\* the elements a sequence field is created with, told apart by their
\* position at creation
Full == [k \in 1..MaxLen |-> k]

\* securities of a document: `type: Object` in ChurchSchema, so whatever
\* object was written; present is FALSE when the key is missing
Securities(d, t) == [present |-> TRUE, deacons |-> d, trustees |-> t]

NoSecurities == [present |-> FALSE, deacons |-> NotArr, trustees |-> NotArr]

\* a church document: its owner, its root-level arrays, its securities
Church(owner, arrays, securities) ==
  [user |-> owner, arrays |-> arrays, securities |-> securities]

\* the document POST /churches stores for a validated body
NewChurch(owner) ==
  Church(owner, [f \in Fields |-> Arr(Full)], Securities(Arr(Full), Arr(Full)))

\* Paths whose in-place changes document.save() writes: the schema arrays
\* (gallery, songs, oldServices, liveServices) are Mongoose arrays and track
\* splice; securities is `type: Object` (Mixed), which Mongoose does not
\* track unless markModified is called, and the handlers never call it.
TrackedPath(path) == path \in Fields

\* church.save() after the loaded document doc of id churchId was changed
\* in place at path: the store afterwards
save(store, churchId, doc, path) ==
  IF TrackedPath(path) THEN [store EXCEPT ![churchId].arrays = doc.arrays]
  ELSE store

---------------------------------------------------------------------------
(* The response object and the steps of a handler *)

\* nothing sent yet (status 0), nothing thrown, the store as the handler found it
NewRes(store) == [status |-> 0, thrown |-> FALSE, log |-> <<>>, store |-> store]

\* one step of the handler, noted in the log
Step(r, what) == [r EXCEPT !.log = Append(@, what)]

\* res.status(code).json(...): the first call answers the client; a later
\* one throws ERR_HTTP_HEADERS_SENT and ends the handler
Send(r, code) ==
  IF r.status = 0 THEN [r EXCEPT !.status = code, !.log = Append(@, "res.json")]
  ELSE [r EXCEPT !.thrown = TRUE, !.log = Append(@, "ERR_HTTP_HEADERS_SENT")]

\* a TypeError thrown while reading a property of undefined
Throw(r) == [r EXCEPT !.thrown = TRUE, !.log = Append(@, "TypeError")]

\* the bounds check with > for >=
OutOfBoundsOffByOne(index, len) == Lt(index, 0) \/ Ge(index, len + 1)

\* index < 0 || index >= array.length
OutOfBounds(index, len) == Lt(index, 0) \/ Ge(index, len)

\* deleteNestedItem(req, res, arrayField, indexParam), lines 200-236
deleteNestedItem(store, churchId, arrayField, indexStr) ==
  LET index == ParseIndex(indexStr)
      r0 == NewRes(store)
      \* lines 205-207: the 400 is sent and the function goes on
      r1 == IF isNaN(index) THEN Send(r0, 400) ELSE r0
      r2 == Step(r1, "findById")
  IN IF churchId \notin DOMAIN store THEN Send(r2, 404)
     ELSE LET church == store[churchId]
              potentialArray == church.arrays[arrayField]
          IN IF ~IsArray(potentialArray) THEN Send(r2, 500)
             ELSE IF OutOfBounds(index, Len(potentialArray.items)) THEN Send(r2, 400)
             ELSE LET doc == [church EXCEPT !.arrays[arrayField] =
                                     Arr(splice(potentialArray.items, index))]
                      r3 == Step(r2, "splice")
                      r4 == [Step(r3, "save") EXCEPT
                               !.store = save(r3.store, churchId, doc, arrayField)]
                  IN Send(r4, 200)

\* DELETE /churches/:churchId/deacon/:deaconIndex (lines 258-281) and
\* DELETE /churches/:churchId/trustee/:trusteeIndex (lines 284-306):
\* the same code on securities.deacons and securities.trustees
deleteSecurityItem(store, churchId, field, indexStr) ==
  LET index == ParseIndex(indexStr)
      r0 == NewRes(store)
      \* no return after the 400
      r1 == IF isNaN(index) THEN Send(r0, 400) ELSE r0
      r2 == Step(r1, "findById")
  IN IF churchId \notin DOMAIN store THEN Send(r2, 404)
     ELSE LET church == store[churchId]
              sec == church.securities
              bad == ~sec.present \/ ~IsArray(sec[field])
              \* no return after the 400
              r3 == IF bad THEN Send(r2, 400) ELSE r2
          IN IF r3.thrown THEN r3
             \* church.securities[field].length of a missing value
             ELSE IF bad THEN Throw(r3)
             ELSE LET array == sec[field].items
                      \* no return after the 400
                      r4 == IF OutOfBounds(index, Len(array)) THEN Send(r3, 400) ELSE r3
                      doc == [church EXCEPT !.securities[field] = Arr(splice(array, index))]
                      r5 == Step(r4, "splice")
                      r6 == [Step(r5, "save") EXCEPT
                               !.store = save(r5.store, churchId, doc, "securities")]
                  IN Send(r6, 200)

---------------------------------------------------------------------------
(* Errors and the global error handler *)

RECURSIVE FirstDigit(_)
\* the first character of `${statusCode}`
FirstDigit(n) == IF n < 10 THEN n ELSE FirstDigit(n \div 10)

\* An error object as globalErrorHandler looks at it: its class (for
\* instanceof), name, message, code, and for an AppError the status code,
\* status and details.errors, for a ZodError the issues.
Err(class, name, message) ==
  [class |-> class, name |-> name, message |-> message, code |-> 0,
   statusCode |-> 0, status |-> "", isOperational |-> FALSE,
   hasErrors |-> FALSE, errors |-> <<>>]

\* new AppError(message, statusCode, details): errors are details.errors
AppErrorWith(message, statusCode, hasErrors, errors) ==
  [Err("AppError", "Error", message) EXCEPT
     !.statusCode = statusCode,
     !.status = IF FirstDigit(statusCode) = 4 THEN "fail" ELSE "error",
     !.isOperational = TRUE,
     !.hasErrors = hasErrors, !.errors = errors]

\* new AppError(message, statusCode)
AppError(message, statusCode) == AppErrorWith(message, statusCode, FALSE, <<>>)

\* a ZodError with its issues; its own message is the issues as JSON
ZodError(issues) ==
  [Err("ZodError", "ZodError", "zod: issues as JSON") EXCEPT
     !.hasErrors = TRUE, !.errors = issues]

\* a MongoServerError for a duplicate key
DuplicateKeyError ==
  [Err("MongoServerError", "MongoServerError", "E11000 duplicate key error") EXCEPT
     !.code = 11000]

\* handleZodError: an AppError 400 whose message lists the issues and whose
\* details carry them
handleZodError(err) == AppErrorWith("Invalid input data: <path - message; ...>", 400, TRUE, err.errors)

\* the ProcessedError globalErrorHandler starts with, lines 110-117
DefaultProcessed(err) ==
  [statusCode |-> 500, status |-> "error", message |-> err.message, stack |-> TRUE,
   name |-> err.name, isOperational |-> FALSE, hasErrors |-> FALSE, errors |-> <<>>]

\* { ...processedError, ...appError, isOperational: true }: the spread copies
\* the own enumerable properties of the AppError (statusCode, status,
\* isOperational, details); message and stack of an Error are not
\* enumerable, and details is not read afterwards
SpreadOver(processed, appError) ==
  [processed EXCEPT !.statusCode = appError.statusCode, !.status = appError.status,
                    !.isOperational = TRUE]

\* lines 119-189: the ProcessedError made of err
Process(err) ==
  LET d == DefaultProcessed(err)
  IN IF err.class = "AppError"
     THEN [d EXCEPT !.statusCode = err.statusCode, !.status = err.status,
                    !.message = err.message, !.isOperational = err.isOperational,
                    !.hasErrors = err.hasErrors, !.errors = err.errors]
     ELSE IF err.class = "ZodError"
     THEN LET a == handleZodError(err)
          IN [d EXCEPT !.statusCode = a.statusCode, !.status = a.status,
                       !.message = a.message, !.isOperational = TRUE,
                       !.hasErrors = a.hasErrors, !.errors = a.errors]
     ELSE IF err.class = "CastError"
     THEN SpreadOver(d, AppError("Invalid <path>: <value>.", 400))
     ELSE IF err.class = "ValidationError"
     THEN SpreadOver(d, AppError("Invalid input data. <messages>", 400))
     ELSE IF err.code = 11000
     THEN SpreadOver(d, AppError("Duplicate field value: <value>. Please use another value!", 400))
     ELSE IF err.name = "JsonWebTokenError"
     THEN SpreadOver(d, AppError("Invalid token. Please log in again!", 401))
     ELSE IF err.name = "TokenExpiredError"
     THEN SpreadOver(d, AppError("Your token has expired! Please log in again.", 401))
     ELSE d

\* what the client receives: the HTTP status code and the JSON body (which
\* keys it has: error, stack, errors; and status and message)
Response(code, status, message, hasError, hasStack, hasErrors, errors) ==
  [code |-> code, status |-> status, message |-> message, hasError |-> hasError,
   hasStack |-> hasStack, hasErrors |-> hasErrors, errors |-> errors]

\* sendErrorDev
sendErrorDev(p) ==
  Response(p.statusCode, p.status, p.message, TRUE, p.stack, p.hasErrors, p.errors)

\* sendErrorProd that answers every error with its own message
sendErrorProdLeaky(p) ==
  Response(p.statusCode, p.status, p.message, FALSE, FALSE, p.hasErrors, p.errors)

\* sendErrorProd
sendErrorProd(p) ==
  IF p.isOperational
  THEN Response(p.statusCode, p.status, p.message, FALSE, FALSE, p.hasErrors, p.errors)
  ELSE Response(500, "error", "Something went very wrong!", FALSE, FALSE, FALSE, <<>>)

\* globalErrorHandler(err, req, res, next)
globalErrorHandler(err, prod) ==
  IF prod THEN sendErrorProd(Process(err)) ELSE sendErrorDev(Process(err))

---------------------------------------------------------------------------
(* Identities as the responses serialise them *)

\* a stored identity as a document: its _id and its paths
identityDoc(id, rec) ==
  [k \in {"_id"} \cup DOMAIN rec |-> IF k = "_id" THEN <<id>> ELSE <<rec[k]>>]

\* the paths a query loads: password is select: false in UserSchema and is
\* loaded only by select('+password'); '-password', '+email' and '+admin'
\* leave it out
Loaded(doc, projection) ==
  IF projection = "+password" THEN DOMAIN doc ELSE DOMAIN doc \ {"password"}

\* a query that loads every path whatever the projection
selectEverything(doc, projection) == doc

\* Query.select(projection) on the document found
select(doc, projection) == [k \in Loaded(doc, projection) |-> doc[k]]

\* an object literal made of some fields of a document
pick(doc, keys) == [k \in keys \cap DOMAIN doc |-> doc[k]]

\* delete obj[key]
without(obj, key) == [k \in DOMAIN obj \ {key} |-> obj[k]]

\* the fields of userResponse in signup and login, and of the user object
\* of getMe and updateMe
ResponseFields == {"_id", "firstName", "lastName", "email", "avatar", "createdAt", "updatedAt"}

---------------------------------------------------------------------------
(* Requests *)

\* the :index path parameters tried: digits, a sign, other characters
IndexStrings ==
  { <<"0">>, <<"1">>, <<"2">>, <<"3">>, <<"x">>,
    <<"-", "1">>, <<"-", "0">>, <<"1", "0">>, <<"1", "x">>, <<" ", "1">> }

\* "Bearer <token>"
Bearer(t) == Header(<<Lit("Bearer"), Space, Tok(t)>>)

\* a token generateToken({ id }) signs at time t
generateToken(id, t) == Token("good", TRUE, id, t, FALSE)

\* the nested-deletion routes that go through deleteNestedItem, lines 238-316
NestedRoutes ==
  [r \in {"gallery", "past-service", "song", "live"} |->
     CASE r = "gallery" -> "gallery"
       [] r = "past-service" -> "oldServices"
       [] r = "song" -> "songs"
       [] r = "live" -> "liveServices"]

\* a request: its route and Authorization header; the path parameters
\* (churchId, idx, target), the body and a client-supplied admin flag are
\* filled in per route
Request(route, hdr) ==
  [route |-> route, hdr |-> hdr, churchId |-> "", field |-> "", idx |-> <<>>,
   target |-> "", flag |-> FALSE, body |-> ""]

\* the record of a handled request: the request, the store and time it met,
\* the first response sent (its code; of its body the message, the errors,
\* the status key of the error envelope, "none" when the body has no such
\* key, whether a stack is in it, the documents and the identities
\* serialised into it), the steps taken, req.user
Handled(req, status, msg, log, reqUser) ==
  [route |-> req.route, hdr |-> req.hdr, churchId |-> req.churchId, field |-> req.field,
   idx |-> req.idx, target |-> req.target, flag |-> req.flag, body |-> req.body,
   status |-> status, msg |-> msg, errors |-> <<>>, envelope |-> "none", stack |-> FALSE,
   data |-> {}, identities |-> {}, log |-> log, reqUser |-> reqUser, preUsers |-> users, preChurches |-> churches, at |-> now,
   \* whether the request before this one was answered 200 on the same route,
   \* church and index
   repeat |-> last.status = 200 /\ last.route = req.route /\ last.churchId = req.churchId
              /\ last.idx = req.idx]

\* before any request
NoRequest ==
  [route |-> "none", hdr |-> NoHeader, churchId |-> "", field |-> "", idx |-> <<>>,
   target |-> "", flag |-> FALSE, body |-> "", status |-> 0, msg |-> "", errors |-> <<>>,
   envelope |-> "none", stack |-> FALSE, data |-> {}, identities |-> {},
   log |-> <<>>,
   reqUser |-> NoUser, preUsers |-> users, preChurches |-> churches, at |-> now,
   repeat |-> FALSE]

\* next(err): the request ends in globalErrorHandler, whose response is recorded
Translated(req, err, log, reqUser) ==
  LET r == globalErrorHandler(err, production)
  IN [Handled(req, r.code, r.message, log, reqUser) EXCEPT
        !.errors = r.errors, !.envelope = r.status, !.stack = r.hasStack]

\* globalErrorHandler for the AppError a middleware passed to next(): the
\* response carries the error's own status code and message
Rejected(req, a) == Translated(req, AppError(a.msg, a.status), a.log, a.user)

\* the requests sent to a nested-deletion route: with the fresh token of the
\* registered user every church id and index; without a header, one of them
NestedRequests ==
  ({Bearer(generateToken("u1", now))} \X (ChurchIds \cup {MissingChurchId}) \X IndexStrings)
  \cup ({NoHeader} \X ChurchIds \X {<<"0">>})

\* an authenticated DELETE on a nested array: authenticateUser, then the
\* handler, whose result r is (status, steps, store)
NestedDelete(req, r) ==
  LET a == authenticateUser(req.hdr, users, now)
  IN /\ served < MaxRequests
     /\ served' = served + 1
     /\ churches' = IF a.ok THEN r.store ELSE churches
     /\ last' = IF a.ok
                THEN Handled(req, r.status, "", a.log \o <<"handler">> \o r.log, a.user)
                ELSE Rejected(req, a)
     /\ UNCHANGED <<inflight, production, users, now, approvedAt>>

\* DELETE /churches/:churchId/{gallery|past-service|song|live}/:index
DeleteNestedItemReq ==
  \E q \in NestedRequests, route \in DOMAIN NestedRoutes :
    LET f == NestedRoutes[route]
        req == [Request(route, q[1]) EXCEPT !.churchId = q[2], !.field = f, !.idx = q[3]]
    IN NestedDelete(req, deleteNestedItem(churches, q[2], f, q[3]))

\* DELETE /churches/:churchId/deacon/:deaconIndex
DeleteDeaconReq ==
  \E q \in NestedRequests :
    LET req == [Request("deacon", q[1]) EXCEPT
                  !.churchId = q[2], !.field = "deacons", !.idx = q[3]]
    IN NestedDelete(req, deleteSecurityItem(churches, q[2], "deacons", q[3]))

\* DELETE /churches/:churchId/trustee/:trusteeIndex
DeleteTrusteeReq ==
  \E q \in NestedRequests :
    LET req == [Request("trustee", q[1]) EXCEPT
                  !.churchId = q[2], !.field = "trustees", !.idx = q[3]]
    IN NestedDelete(req, deleteSecurityItem(churches, q[2], "trustees", q[3]))

\* securities blocks a stored church may hold: written by the creation
\* contract, or any object (or none) written before the contract existed
InitSecurities ==
  { Securities(Arr(Full), Arr(Full)), NoSecurities,
    Securities(NotArr, Arr(Full)), Securities(Arr(Full), NotArr) }

\* a stored identity
User(email, role, admin) == [email |-> email, role |-> role, admin |-> admin]

\* A store with one registered user and one church of theirs
InitNested ==
  /\ users = [u \in {"u1"} |-> User(Emails[u], "pastor", FALSE)]
  /\ \E sec \in InitSecurities :
       churches = [c \in ChurchIds |-> Church("u1", [f \in Fields |-> Arr(Full)], sec)]
  /\ now = 0
  /\ approvedAt = [u \in UserIds |-> NoTime]
  /\ last = NoRequest
  /\ served = 0
  /\ inflight = {}
  /\ production = TRUE

NextNested == DeleteNestedItemReq \/ DeleteDeaconReq \/ DeleteTrusteeReq

\* the nested-deletion routes on a store of one church
SpecNested == InitNested /\ [][NextNested]_vars

---------------------------------------------------------------------------
(* The authenticated routes of authRoutes, dashboardRoutes and adminRoutes *)

\* a well-formed id under which no user is stored
MissingUserId == "u0"

\* the tokens a client may hold at time t: signed by the server for a user
\* at some earlier time, signed without an id, or forged (the signature
\* does not match)
Tokens(t) ==
  {generateToken(u, i) : u \in UserIds, i \in 0..t}
  \cup {Token("good", FALSE, "", t, FALSE), Token("bad", TRUE, "u1", t, FALSE)}

\* the Authorization headers tried at time t: none, the scheme alone,
\* "Bearer <token>" for every token, and other shapes around a fresh token
AuthHeaders(t) ==
  {NoHeader, Header(<<Lit("Bearer")>>), Header(<<Lit("Bearer"), Space>>),
   Header(<<Lit("Bearer"), Space, Lit("x")>>)}
  \cup {Bearer(tk) : tk \in Tokens(t)}
  \cup { Header(<<Tok(generateToken("u1", t))>>),
         Header(<<Lit("Bearer"), Tok(generateToken("u1", t))>>),
         Header(<<Lit("Bearer"), Lit("x"), Space, Tok(generateToken("u1", t))>>),
         Header(<<Lit("Bearer"), Space, Space, Tok(generateToken("u1", t))>>),
         Header(<<Lit("bearer"), Space, Tok(generateToken("u1", t))>>),
         Header(<<Lit("Basic"), Space, Tok(generateToken("u1", t))>>) }

\* the headers sent to the admin routes at time t: none, or "Bearer <token>"
\* with a token the server signed for a user at some earlier time, or a
\* fresh one that carries an admin claim besides the id
AdminHeaders(t) ==
  {NoHeader}
  \cup {Bearer(generateToken(u, i)) : u \in UserIds, i \in 0..t}
  \cup {Bearer(Token("good", TRUE, u, t, TRUE)) : u \in UserIds}

\* the clock advances
Tick ==
  /\ now < MaxTime
  /\ now' = now + 1
  /\ UNCHANGED <<inflight, production, users, churches, approvedAt, last, served>>

\* GET /auth/me: authenticateUser, then getMe
\* (its user object is made of the fields of req.user, the id and the email
\* authenticateUser attached), sent with one of the headers hdrs
GetMeBy(hdrs) ==
  \E hdr \in hdrs :
    LET req == Request("me", hdr)
        a == authenticateUser(hdr, users, now)
    IN /\ last' = IF a.ok
                  THEN [Handled(req, 200, "", a.log \o <<"handler">>, a.user) EXCEPT
                          !.identities =
                            {pick(identityDoc(a.user.id, [email |-> a.user.email]),
                                  {"_id", "email"})}]
                  ELSE Rejected(req, a)
       /\ UNCHANGED <<inflight, production, users, churches, now, approvedAt, served>>

GetMeReq == GetMeBy(AuthHeaders(now))

\* POST /dashboard/churches: authenticateUser, validateRequest(createChurchSchema),
\* then the handler, which stores the body under the authenticated user's id;
\* the request is sent with one of the headers hdrs, and counted among the
\* requests served where their number is bounded
CreateChurchBy(hdrs, counted) ==
  \E hdr \in hdrs, body \in {"valid", "invalid"}, id \in ChurchIds :
    LET req == [Request("createChurch", hdr) EXCEPT !.body = body]
        a == authenticateUser(hdr, users, now)
    IN /\ id \notin DOMAIN churches
       /\ IF ~a.ok THEN /\ last' = Rejected(req, a)
                        /\ churches' = churches
          ELSE IF body # "valid"
          THEN /\ last' = Handled(req, 400, "", a.log \o <<"validateRequest">>, a.user)
               /\ churches' = churches
          ELSE /\ last' = Handled(req, 201, "",
                                  a.log \o <<"validateRequest", "handler", "create">>, a.user)
               /\ churches' = [c \in DOMAIN churches \cup {id} |->
                                 IF c = id THEN NewChurch(a.user.id) ELSE churches[c]]
       /\ (counted => served < MaxRequests)
       /\ served' = IF counted THEN served + 1 ELSE served
       /\ UNCHANGED <<inflight, production, users, now, approvedAt>>

\* POST /dashboard/churches with any of the headers
CreateChurchReq == CreateChurchBy(AuthHeaders(now), FALSE)

\* DELETE /dashboard/churches/:id: authenticateUser, then findByIdAndDelete;
\* sent with one of the headers hdrs, counted where the requests are bounded
DeleteChurchBy(hdrs, counted) ==
  \E hdr \in hdrs, id \in ChurchIds \cup {MissingChurchId} :
    LET req == [Request("deleteChurch", hdr) EXCEPT !.churchId = id]
        a == authenticateUser(hdr, users, now)
        log == a.log \o <<"handler", "findByIdAndDelete">>
    IN /\ IF ~a.ok THEN /\ last' = Rejected(req, a)
                        /\ churches' = churches
          ELSE IF id \notin DOMAIN churches
          THEN /\ last' = Handled(req, 404, "", log, a.user)
               /\ churches' = churches
          ELSE /\ last' = Handled(req, 204, "", log, a.user)
               /\ churches' = [c \in DOMAIN churches \ {id} |-> churches[c]]
       /\ (counted => served < MaxRequests)
       /\ served' = IF counted THEN served + 1 ELSE served
       /\ UNCHANGED <<inflight, production, users, now, approvedAt>>

\* DELETE /dashboard/churches/:id with any of the headers
DeleteChurchReq == DeleteChurchBy(AuthHeaders(now), FALSE)

\* adminRoutes without router.use(isAdmin)
AdminGateOpen(hdr, flag) == authenticateUser(hdr, users, now)

\* router.use(authenticateUser); router.use(isAdmin): what the two
\* middlewares of adminRoutes make of a request
AdminGate(hdr, flag) ==
  LET a == authenticateUser(hdr, users, now)
      b == isAdmin(Req(a.user, hdr, flag), users)
  IN IF ~a.ok THEN a
     ELSE [b EXCEPT !.log = a.log \o b.log, !.user = a.user]

\* GET /admin/users/pending: authenticateUser, isAdmin, listPendingUsers
\* (find({ role: { $in: ['pastor', 'IT'] }, admin: false }).select('-password')),
\* sent with one of the headers hdrs
ListPendingUsersBy(hdrs) ==
  \E hdr \in hdrs, flag \in BOOLEAN :
    LET req == [Request("pending", hdr) EXCEPT !.flag = flag]
        g == AdminGate(hdr, flag)
        pending == {u \in DOMAIN users : users[u].role \in {"pastor", "IT"} /\ ~users[u].admin}
    IN /\ last' = IF g.ok
                  THEN [Handled(req, 200, "", g.log \o <<"handler", "find">>, g.user) EXCEPT
                          !.identities =
                            {select(identityDoc(u, users[u]), "-password") : u \in pending}]
                  ELSE Rejected(req, g)
       /\ UNCHANGED <<inflight, production, users, churches, now, approvedAt, served>>

ListPendingUsersReq == ListPendingUsersBy(AdminHeaders(now))

\* approveUser without the try around sendApprovalEmail: the rejection of
\* the email reaches catchAsync
approveUserUncaught(usrs, userId, mailOk) ==
  IF userId \notin DOMAIN usrs
  THEN [status |-> 404, log |-> <<"findByIdAndUpdate">>, users |-> usrs]
  ELSE [status |-> IF mailOk THEN 200 ELSE 500,
        log |-> <<"findByIdAndUpdate", IF mailOk THEN "email.sent" ELSE "email.failed">>,
        users |-> [usrs EXCEPT ![userId].admin = TRUE]]

\* approveUser: findByIdAndUpdate(userId, { admin: true }), 404 when there
\* is no such user; the approval email may fail and is only logged
approveUser(usrs, userId, mailOk) ==
  IF userId \notin DOMAIN usrs
  THEN [status |-> 404, log |-> <<"findByIdAndUpdate">>, users |-> usrs]
  ELSE [status |-> 200,
        log |-> <<"findByIdAndUpdate", IF mailOk THEN "email.sent" ELSE "email.failed">>,
        users |-> [usrs EXCEPT ![userId].admin = TRUE]]

\* PATCH /admin/users/:userId/approve: authenticateUser, isAdmin, approveUser;
\* sent with one of the headers hdrs; where the requests are counted, without
\* a client-side admin flag and with the mail delivered
ApproveUserBy(hdrs, counted) ==
  \E hdr \in hdrs, flag \in BOOLEAN,
     target \in UserIds \cup {MissingUserId}, mailOk \in BOOLEAN :
    LET req == [Request("approve", hdr) EXCEPT !.flag = flag, !.target = target]
        g == AdminGate(hdr, flag)
        r == approveUser(users, target, mailOk)
    IN /\ IF g.ok
          THEN /\ last' = [Handled(req, r.status, "", g.log \o <<"handler">> \o r.log, g.user)
                            EXCEPT !.identities =
                              IF target \in DOMAIN users
                              THEN {select(identityDoc(target, r.users[target]), "-password")}
                              ELSE {}]
               /\ users' = r.users
               /\ approvedAt' = IF target \in DOMAIN users /\ ~users[target].admin
                                THEN [approvedAt EXCEPT ![target] = now]
                                ELSE approvedAt
          ELSE /\ last' = Rejected(req, g)
               /\ UNCHANGED <<users, approvedAt>>
       /\ (counted => served < MaxRequests /\ ~flag /\ mailOk)
       /\ served' = IF counted THEN served + 1 ELSE served
       /\ UNCHANGED <<inflight, production, churches, now>>

\* the approval with any of the headers of the admin routes
ApproveUserReq == ApproveUserBy(AdminHeaders(now), FALSE)

\* the identities a store may hold when the server starts: any of the
\* users, none of them an administrator; the churches: any, owned by u1
InitAuth ==
  /\ \E present \in SUBSET UserIds :
       users = [u \in present |-> User(Emails[u], IF u = "u1" THEN "pastor" ELSE "user", FALSE)]
  /\ \E cs \in SUBSET ChurchIds : churches = [c \in cs |-> NewChurch("u1")]
  /\ now = 0
  /\ approvedAt = [u \in UserIds |-> NoTime]
  /\ last = NoRequest
  /\ served = 0
  /\ inflight = {}
  /\ production = TRUE

NextAuth == Tick \/ GetMeReq \/ CreateChurchReq \/ DeleteChurchReq

\* the routes behind authenticateUser alone, over a clock
SpecAuth == InitAuth /\ [][NextAuth]_vars

\* any of the users registered, each an administrator or not
InitAdmin ==
  /\ \E present \in SUBSET UserIds, admins \in SUBSET UserIds :
       /\ admins \subseteq present
       /\ users = [u \in present |->
                     User(Emails[u], IF u = "u1" THEN "pastor" ELSE "user", u \in admins)]
  /\ churches = [c \in {} |-> NewChurch("u1")]
  /\ now = 0
  /\ approvedAt = [u \in UserIds |-> NoTime]
  /\ last = NoRequest
  /\ served = 0
  /\ inflight = {}
  /\ production = TRUE

NextAdmin == Tick \/ ListPendingUsersReq \/ ApproveUserReq

\* the admin routes over a clock
SpecAdmin == InitAdmin /\ [][NextAdmin]_vars

---------------------------------------------------------------------------
(* Request validation: the zod schemas of the signup form *)

\* a key of req.body: missing (undefined), or a string; the string is kept
\* as its characters where its length or its blanks matter, as one word
\* where only its identity does
Absent == [def |-> FALSE, s |-> <<>>]

Str(s) == [def |-> TRUE, s |-> s]

\* a missing key whose values are kept as words
AbsentWord == [def |-> FALSE, s |-> ""]

\* one ZodIssue: where, what kind, the message
Issue(path, code, msg) == [path |-> path, code |-> code, msg |-> msg]

\* the outcome of parsing one value: zod's ParseStatus ("valid", "dirty"
\* when a check failed on a value of the right type, "aborted" when the
\* value has not the type at all) and the issues added
Parsed(status, issues) == [status |-> status, issues |-> issues]

Valid == Parsed("valid", <<>>)

\* ParseStatus.mergeObjectSync: the object is aborted as soon as one key is,
\* dirty when one is dirty; the issues of all keys are kept, in key order
RECURSIVE MergeObject(_)
MergeObject(parts) ==
  IF parts = <<>> THEN Valid
  ELSE LET rest == MergeObject(Tail(parts))
           h == parts[1]
       IN Parsed(IF h.status = "aborted" \/ rest.status = "aborted" THEN "aborted"
                 ELSE IF h.status = "dirty" \/ rest.status = "dirty" THEN "dirty"
                 ELSE "valid",
                 h.issues \o rest.issues)

\* z.string({required_error}).min(n, msg) on a value kept as characters
zStringMin(v, path, required, n, msg) ==
  IF ~v.def THEN Parsed("aborted", <<Issue(path, "invalid_type", required)>>)
  ELSE IF Len(v.s) < n THEN Parsed("dirty", <<Issue(path, "too_small", msg)>>)
  ELSE Valid

\* the addresses the email check of zod accepts
WellFormedEmails == {"a@x", "A@x", "b@x"}

\* z.string({required_error}).email(msg)
zEmail(v, path, required, msg) ==
  IF ~v.def THEN Parsed("aborted", <<Issue(path, "invalid_type", required)>>)
  ELSE IF v.s \notin WellFormedEmails THEN Parsed("dirty", <<Issue(path, "invalid_string", msg)>>)
  ELSE Valid

\* z.enum(values, {required_error}): a missing key and a value outside the
\* enumeration both abort
zEnum(v, path, values, required) ==
  IF ~v.def THEN Parsed("aborted", <<Issue(path, "invalid_type", required)>>)
  ELSE IF v.s \notin values
  THEN Parsed("aborted", <<Issue(path, "invalid_enum_value", "Invalid enum value")>>)
  ELSE Valid

RECURSIVE StripRight(_)
\* the string without its trailing blanks
StripRight(s) ==
  IF s # <<>> /\ IsSpace(s[Len(s)]) THEN StripRight(SubSeq(s, 1, Len(s) - 1)) ELSE s

\* String.prototype.trim
trim(s) == StripRight(StripLeft(s))

\* the refinement of signupSchema, lines 33-38, on the parsed body (whose
\* churchSelection z.string().trim() has trimmed)
ChurchSelectionGiven(role, churchSelection) ==
  IF role.def /\ (role.s = "pastor" \/ role.s = "IT")
  THEN churchSelection.def /\ churchSelection.s # <<>> /\ Len(trim(churchSelection.s)) > 0
  ELSE TRUE

\* a refinement that also runs on an aborted object
Refined(inner, ok, issue) ==
  Parsed(IF ~ok /\ inner.status = "valid" THEN "dirty" ELSE inner.status,
         inner.issues \o (IF ok THEN <<>> ELSE <<issue>>))

\* ZodEffects of kind refinement: the inner schema is parsed first; when it
\* aborted the refinement is not executed, else its issue is added
refine(inner, ok, issue) ==
  IF inner.status = "aborted" THEN inner
  ELSE Refined(inner, ok, issue)

\* signupSchema.parseAsync({ body, query, params }): the issues in the order
\* zod finds them
signupSchema(body) ==
  LET p(k) == <<"body", k>>
      fields == MergeObject(<<
        zStringMin(body.firstName, p("firstName"), "First name is required",
                   1, "First name cannot be empty"),
        zStringMin(body.lastName, p("lastName"), "Last name is required",
                   1, "Last name cannot be empty"),
        zEmail(body.email, p("email"), "Email is required", "Invalid email address"),
        zStringMin(body.password, p("password"), "Password is required",
                   8, "Password must be at least 8 characters long"),
        zEnum(body.language, p("language"), {"en", "fr"}, "Language is required"),
        zEnum(body.role, p("role"), {"user", "pastor", "IT"}, "Role is required") >>)
      trimmed == IF body.churchSelection.def THEN Str(trim(body.churchSelection.s))
                 ELSE Absent
  IN refine(fields, ChurchSelectionGiven(body.role, trimmed),
            Issue(p("churchSelection"), "custom",
                  "Church selection is required for pastors and IT."))

---------------------------------------------------------------------------
(* Identities: signup, login and the routes that change one's own record *)

\* the lowercase setter of UserSchema.email (String.prototype.toLowerCase)
\* on the addresses of the model
keepCase(e) == e

toLowerCase(e) == IF e = "A@x" THEN "a@x" ELSE e

\* bcrypt.hash(password, salt) of the pre-save hook
hash(password) == [bcrypt |-> password]

\* a comparison that accepts every candidate
comparePasswordAny(candidate, stored) == TRUE

\* bcrypt.compare(candidate, stored)
comparePassword(candidate, stored) == stored = hash(candidate)

\* a stored identity with what signup and the update routes write
Identity(firstName, email, password, role, churchSelection, avatar, admin) ==
  [firstName |-> firstName, email |-> email, password |-> password, role |-> role,
   churchSelection |-> churchSelection, avatar |-> avatar, admin |-> admin]

\* a document made of the whole request body, an admin key included
createUserFromBody(body) ==
  Identity(trim(body.firstName.s), toLowerCase(body.email.s), hash(body.password.s),
           body.role.s,
           IF body.churchSelection.def THEN trim(body.churchSelection.s) ELSE <<>>,
           "default", body.admin.def /\ body.admin.s = "true")

\* User.create({ firstName, lastName, email, password, avatar, language,
\* role, churchSelection }): the setters trim and lowercase, the pre-save
\* hook hashes the password, admin takes its default
createUser(body) ==
  Identity(trim(body.firstName.s), toLowerCase(body.email.s), hash(body.password.s),
           body.role.s,
           IF body.churchSelection.def THEN trim(body.churchSelection.s) ELSE <<>>,
           "default", FALSE)

\* the unique index on email: a write of email for the document id is
\* refused when another document holds that value
DuplicateKey(usrs, id, email) ==
  \E u \in DOMAIN usrs : u # id /\ usrs[u].email = email

\* User.findOne({ email }): the filter is cast through the schema's setters
findOneByEmail(usrs, email) ==
  {u \in DOMAIN usrs : usrs[u].email = toLowerCase(email)}

\* a store with one more document
Insert(store, id, doc) ==
  [k \in DOMAIN store \cup {id} |-> IF k = id THEN doc ELSE store[k]]

\* passwords of eight characters
Password1 == <<"p", "a", "s", "s", "w", "o", "r", "1">>

Password2 == <<"p", "a", "s", "s", "w", "o", "r", "2">>

\* a signup form that passes validation but for what is varied
SignupBody(email, role, churchSelection, admin) ==
  [firstName |-> Str(<<"J">>), lastName |-> Str(<<"D">>), email |-> email,
   password |-> Str(Password1), language |-> Str("en"), role |-> role,
   churchSelection |-> churchSelection, admin |-> admin]

\* the forms sent to signup by clients who fill them in validly, with or
\* without a key admin: "true" next to the fields of the form
IdentityBodies ==
  {SignupBody(Str(e), r[1], r[2], r[3]) :
     e \in WellFormedEmails,
     r \in {<<Str("user"), Absent, Str("true")>>,
            <<Str("pastor"), Str(<<"C">>), AbsentWord>>}}

\* POST /auth/signup up to the first await of the handler that the store
\* answers: validateRequest(signupSchema), the upload of req.file to
\* Cloudinary when the form has one (its outcome, "uploaded" or
\* "upload.failed", is kept with the request; "" when there is no file),
\* then User.findOne({ email })
SignupStartWith(bodies, uploads) ==
  \E body \in bodies, up \in uploads :
    LET req == [Request("signup", NoHeader) EXCEPT !.body = body, !.field = up]
        v == signupSchema(body)
    IN /\ served < MaxRequests
       /\ served' = served + 1
       /\ IF v.issues # <<>>
          THEN /\ last' = Translated(req, ZodError(v.issues), <<"validateRequest">>, NoUser)
               /\ inflight' = inflight
          ELSE IF findOneByEmail(users, body.email.s) # {}
          THEN /\ last' = Translated(req, AppError("Email address already in use.", 400),
                                     <<"validateRequest", "handler", "User.findOne">>, NoUser)
               /\ inflight' = inflight
          ELSE /\ inflight' = inflight \cup {req}
               /\ last' = last
       /\ UNCHANGED <<users, churches, now, approvedAt, production>>

\* signup with a form without a file
SignupStart(bodies) == SignupStartWith(bodies, {""})

\* signup with a validly filled form
SignupReq == SignupStart(IdentityBodies)

\* the rest of a signup whose findOne found nobody: User.create, which the
\* unique index may refuse, then the token and the 201
\* mails is the set of outcomes <<welcome, notification>> of the two emails
\* sent after the creation, each caught and logged by the handler
SignupCreateWith(mails) ==
  \E req \in inflight, m \in mails :
    LET doc == [createUser(req.body) EXCEPT
                  !.avatar = IF req.field = "uploaded" THEN "uploaded" ELSE "default"]
        log == <<"validateRequest", "handler">>
               \o (IF req.field = "" THEN <<>> ELSE <<req.field>>)
               \o <<"User.findOne", "User.create">>
        sent == <<IF m[1] THEN "welcome.sent" ELSE "welcome.failed">>
                \o (IF req.body.role.s \in {"pastor", "IT"}
                    THEN <<IF m[2] THEN "notify.sent" ELSE "notify.failed">>
                    ELSE <<>>)
    IN /\ inflight' = inflight \ {req}
       /\ IF DuplicateKey(users, "", doc.email)
          THEN /\ last' = Translated(req, DuplicateKeyError, log, NoUser)
               /\ users' = users
          ELSE \E id \in UserIds \ DOMAIN users :
                 /\ users' = Insert(users, id, doc)
                 /\ last' = [Handled(req, 201, "", log \o sent, NoUser) EXCEPT
                               !.target = id,
                               !.identities = {pick(identityDoc(id, doc), ResponseFields)}]
       /\ UNCHANGED <<churches, now, approvedAt, served, production>>

\* the creation with both emails delivered
SignupCreate == SignupCreateWith({<<TRUE, TRUE>>})

\* loginSchema: an email address and a password that is not empty
loginSchema(body) ==
  MergeObject(<<
    zEmail(body.email, <<"body", "email">>, "Email is required", "Invalid email address"),
    zStringMin(body.password, <<"body", "password">>, "Password is required",
               1, "Password cannot be empty") >>)

\* POST /auth/login: validateRequest(loginSchema), then the handler, which
\* answers with a fresh token and writes nothing
LoginReq ==
  \E e \in {"a@x", "A@x", "bad"}, pw \in {Password1, Password2} :
    LET body == [email |-> Str(e), password |-> Str(pw)]
        req == [Request("login", NoHeader) EXCEPT !.body = body]
        v == loginSchema(body)
        found == findOneByEmail(users, e)
        log == <<"validateRequest", "handler", "User.findOne">>
    IN /\ served < MaxRequests
       /\ served' = served + 1
       /\ last' = IF v.issues # <<>>
                  THEN Translated(req, ZodError(v.issues), <<"validateRequest">>, NoUser)
                  ELSE IF \E u \in found : comparePassword(pw, users[u].password)
                  THEN [Handled(req, 200, "", log, NoUser) EXCEPT
                          !.data = {generateToken(u, now) : u \in found},
                          !.identities =
                            {pick(select(identityDoc(u, users[u]), "+password"), ResponseFields) :
                               u \in found}]
                  ELSE Translated(req, AppError("Incorrect email or password", 401), log, NoUser)
       /\ UNCHANGED <<users, churches, now, approvedAt, inflight, production>>

\* the callers of the routes that act on one's own record: the holders of a
\* fresh token
IdentityCallers == {Bearer(generateToken(u, now)) : u \in UserIds}

\* updateMe, lines 209-261, for the authenticated user id: only firstName,
\* lastName and email of the body are taken over; findByIdAndUpdate runs the
\* setters on the update and is refused by the unique index
updateMe(usrs, id, body) ==
  IF ~body.firstName.def /\ ~body.email.def
  THEN [ok |-> FALSE, err |-> AppError("No valid fields provided for update.", 400),
        users |-> usrs, log |-> <<>>]
  ELSE LET email == IF body.email.def THEN toLowerCase(body.email.s) ELSE usrs[id].email
           name == IF body.firstName.def THEN trim(body.firstName.s) ELSE usrs[id].firstName
       IN IF DuplicateKey(usrs, id, email)
          THEN [ok |-> FALSE, err |-> DuplicateKeyError, users |-> usrs,
                log |-> <<"findByIdAndUpdate">>]
          ELSE [ok |-> TRUE, err |-> DuplicateKeyError,
                users |-> [usrs EXCEPT ![id].email = email, ![id].firstName = name],
                log |-> <<"findByIdAndUpdate">>]

\* PATCH /auth/updateMe: authenticateUser, validateRequest(updateMeSchema),
\* updateMe.  updateMeSchema has optional keys only, read at the top level
\* of { body, query, params }, and so lets every body through; the bodies
\* sent are a name, an address or both, well-formed, next to a key
\* admin: "true".
UpdateMeReq ==
  \E hdr \in IdentityCallers \cup {NoHeader},
     f \in {<<Str(<<"K">>), AbsentWord>>, <<Absent, AbsentWord>>}
            \cup {<<Absent, Str(x)>> : x \in WellFormedEmails} :
    LET body == [firstName |-> f[1], email |-> f[2], admin |-> Str("true")]
        req == [Request("updateMe", hdr) EXCEPT !.body = body]
        a == authenticateUser(hdr, users, now)
        r == updateMe(users, a.user.id, body)
        log == a.log \o <<"validateRequest", "handler">> \o r.log
    IN /\ served < MaxRequests
       /\ served' = served + 1
       /\ IF ~a.ok THEN last' = Rejected(req, a) /\ users' = users
          ELSE IF r.ok
          THEN /\ last' = [Handled(req, 200, "", log, a.user) EXCEPT
                             !.identities =
                               {pick(select(identityDoc(a.user.id, r.users[a.user.id]), ""),
                                     ResponseFields)}]
               /\ users' = r.users
          ELSE last' = Translated(req, r.err, log, a.user) /\ users' = users
       /\ UNCHANGED <<churches, now, approvedAt, inflight, production>>

\* what validateRequest hands to schema.parseAsync: an object with the keys
\* body, query and params
RequestParts(body) == [body |-> body, query |-> <<>>, params |-> <<>>]

\* the value of a key of an object, undefined when the object has no such key
Key(obj, k) == IF k \in DOMAIN obj THEN obj[k] ELSE Absent

\* updatePasswordSchema: z.object({ currentPassword, newPassword,
\* confirmPassword }), whose keys are read at the top level of what it parses
updatePasswordSchema(input) ==
  MergeObject(<<
    zStringMin(Key(input, "currentPassword"), <<"currentPassword">>, "Required",
               1, "Current password is required"),
    zStringMin(Key(input, "newPassword"), <<"newPassword">>, "Required",
               8, "New password must be at least 8 characters long"),
    zStringMin(Key(input, "confirmPassword"), <<"confirmPassword">>, "Required",
               1, "Please confirm your new password") >>)

\* PATCH /auth/update-password: authenticateUser,
\* validateRequest(updatePasswordSchema), which parses { body, query,
\* params }, then updatePassword, lines 264-304
UpdatePasswordReq ==
  \E hdr \in IdentityCallers,
     pw \in {<<Password1, Password2>>, <<Password2, Password2>>, <<Password1, Password1>>} :
    LET cur == pw[1]
        confirm == pw[2]
        body == [currentPassword |-> Str(cur), newPassword |-> Str(Password2),
                 confirmPassword |-> Str(confirm)]
        req == [Request("updatePassword", hdr) EXCEPT !.body = body]
        a == authenticateUser(hdr, users, now)
        v == updatePasswordSchema(RequestParts(body))
        log == a.log \o <<"validateRequest", "handler", "User.findById">>
    IN /\ served < MaxRequests
       /\ served' = served + 1
       /\ IF ~a.ok THEN last' = Rejected(req, a) /\ users' = users
          ELSE IF v.issues # <<>>
          THEN /\ last' = Translated(req, ZodError(v.issues),
                                     a.log \o <<"validateRequest">>, a.user)
               /\ users' = users
          ELSE IF body.newPassword # body.confirmPassword
          THEN /\ last' = Translated(req, AppError("New passwords don't match", 400), log, a.user)
               /\ users' = users
          ELSE IF ~comparePassword(cur, users[a.user.id].password)
          THEN /\ last' = Translated(req, AppError("Your current password is wrong", 401),
                                     log, a.user)
               /\ users' = users
          ELSE /\ last' = Handled(req, 200, "", Append(log, "save"), a.user)
               /\ users' = [users EXCEPT ![a.user.id].password = hash(body.newPassword.s)]
       /\ UNCHANGED <<churches, now, approvedAt, inflight, production>>

\* PATCH /auth/update-avatar: authenticateUser, uploadUserPhoto, then
\* updateAvatar, lines 307-348: 400 without a file; the upload may fail
UpdateAvatarReq ==
  \E hdr \in IdentityCallers, file \in BOOLEAN, uploaded \in BOOLEAN :
    LET req == [Request("updateAvatar", hdr) EXCEPT
                  !.body = [file |-> file, uploaded |-> uploaded]]
        a == authenticateUser(hdr, users, now)
        log == a.log \o <<"handler">>
    IN /\ served < MaxRequests
       /\ served' = served + 1
       /\ (uploaded => file)
       /\ IF ~a.ok THEN last' = Rejected(req, a) /\ users' = users
          ELSE IF ~file
          THEN last' = Translated(req, AppError("No file uploaded.", 400), log, a.user)
               /\ users' = users
          ELSE IF ~uploaded
          THEN last' = Translated(req, Err("Error", "Error", "Cloudinary upload failed"),
                                  Append(log, "upload"), a.user)
               /\ users' = users
          ELSE /\ users' = [users EXCEPT ![a.user.id].avatar = "uploaded"]
               /\ last' = [Handled(req, 200, "", log \o <<"upload", "findByIdAndUpdate">>, a.user)
                            EXCEPT !.identities =
                              {without(select(identityDoc(a.user.id, users'[a.user.id]), ""),
                                       "password")}]
       /\ UNCHANGED <<churches, now, approvedAt, inflight, production>>

\* the approval by a holder of a fresh token, counted
ApproveCounted == ApproveUserBy(IdentityCallers, TRUE)

\* the creation of a church by a holder of a fresh token, counted
CreateChurchCounted == CreateChurchBy(IdentityCallers, TRUE)

\* the administrator the store starts with
InitialAdmin == "u1"

\* an empty store, or one with the first administrator; either environment
InitIdentity ==
  /\ \E present \in SUBSET {InitialAdmin} :
       users = [u \in present |->
                  Identity(<<"A">>, "a@x", hash(Password1), "pastor", <<"C">>, "default", TRUE)]
  /\ churches = [c \in {} |-> NewChurch("u1")]
  /\ now = 0
  /\ approvedAt = [u \in UserIds |-> NoTime]
  /\ last = NoRequest
  /\ served = 0
  /\ inflight = {}
  /\ production \in BOOLEAN

NextIdentity ==
  \/ SignupReq \/ SignupCreate \/ LoginReq \/ UpdateMeReq \/ UpdatePasswordReq
  \/ UpdateAvatarReq \/ ApproveCounted \/ CreateChurchCounted

\* signup, login, the routes on one's own record, the approval and a church
\* operation, over a store of identities
SpecIdentity == InitIdentity /\ [][NextIdentity]_vars

---------------------------------------------------------------------------
(* Churches: the creation contract, the partial update and the callers *)

\* an array of the body
List(items) == [def |-> TRUE, s |-> items]

\* the securities object of the body, with its two arrays
SecuritiesOf(deacons, trustees) == [def |-> TRUE, deacons |-> deacons, trustees |-> trustees]

AbsentSecurities == [def |-> FALSE, deacons |-> Absent, trustees |-> Absent]

\* the principal object of the body, with the name of the pastor
PrincipalOf(pastor) == [def |-> TRUE, pastor |-> pastor]

AbsentPrincipal == [def |-> FALSE, pastor |-> Absent]

\* the keys of the body that hold a string, a URL, an array
StringKeys == {"name", "location"}

UrlKeys == {"image", "logo"}

ArrayKeys == {"banner", "oldServices", "liveServices", "gallery", "songs"}

\* the values the URL check of zod accepts
WellFormedUrls == {"http://1", "http://2"}

\* z.string().url(msg)
zUrl(v, path, msg) ==
  IF ~v.def THEN Parsed("aborted", <<Issue(path, "invalid_type", "Required")>>)
  ELSE IF v.s \notin WellFormedUrls THEN Parsed("dirty", <<Issue(path, "invalid_string", msg)>>)
  ELSE Valid

\* z.array(item).min(1, msg), the items being such as pass the item schema
zArrayMin(v, path, msg) ==
  IF ~v.def THEN Parsed("aborted", <<Issue(path, "invalid_type", "Required")>>)
  ELSE IF Len(v.s) < 1 THEN Parsed("dirty", <<Issue(path, "too_small", msg)>>)
  ELSE Valid

\* principalSchema
principalSchema(v, path) ==
  IF ~v.def THEN Parsed("aborted", <<Issue(path, "invalid_type", "Required")>>)
  ELSE zStringMin(v.pastor, Append(path, "pastor"), "Required", 1, "Pastor name required")

\* securitiesSchema
securitiesSchema(v, path) ==
  IF ~v.def THEN Parsed("aborted", <<Issue(path, "invalid_type", "Required")>>)
  ELSE MergeObject(<<
         zArrayMin(v.deacons, Append(path, "deacons"), "At least one deacon is required"),
         zArrayMin(v.trustees, Append(path, "trustees"), "At least one trustee is required") >>)

\* .partial(): a key that is missing passes
optional(v, parsed) == IF ~v.def THEN Valid ELSE parsed

\* the keys of createChurchSchema in their order, each with its check;
\* partial is TRUE for updateChurchSchema = createChurchSchema.partial()
ChurchShape(body, partial) ==
  LET key(v, parsed) == IF partial THEN optional(v, parsed) ELSE parsed
  IN MergeObject(<<
       key(body.name, zStringMin(body.name, <<"name">>, "Required", 1, "Church name is required")),
       key(body.location,
           zStringMin(body.location, <<"location">>, "Required", 1, "Location is required")),
       key(body.principal, principalSchema(body.principal, <<"principal">>)),
       key(body.image, zUrl(body.image, <<"image">>, "Valid church image URL is required")),
       key(body.logo, zUrl(body.logo, <<"logo">>, "Valid logo URL is required")),
       key(body.banner,
           zArrayMin(body.banner, <<"banner">>, "At least one banner image URL is required")),
       key(body.securities, securitiesSchema(body.securities, <<"securities">>)),
       key(body.oldServices,
           zArrayMin(body.oldServices, <<"oldServices">>,
                     "At least one past service record is required")),
       key(body.liveServices,
           zArrayMin(body.liveServices, <<"liveServices">>,
                     "At least one live service record is required")),
       key(body.gallery,
           zArrayMin(body.gallery, <<"gallery">>, "At least one gallery image URL is required")),
       key(body.songs, zArrayMin(body.songs, <<"songs">>, "At least one song is required")) >>)

\* a creation contract that lets empty arrays through
createChurchSchemaNoMin(body) ==
  LET p == ChurchShape(body, FALSE)
      kept == SelectSeq(p.issues, LAMBDA i : i.code # "too_small")
  IN Parsed(IF kept = <<>> THEN "valid" ELSE p.status, kept)

createChurchSchema(body) == ChurchShape(body, FALSE)

\* an update contract that checks nothing
updateChurchSchemaAny(body) == Valid

updateChurchSchema(body) == ChurchShape(body, TRUE)

\* the keys of the schema outside the nested arrays and securities
PropKeys == StringKeys \cup UrlKeys \cup {"principal", "banner"}

\* the value stored for a key of a validated body
Stored(body, k) == IF k = "principal" THEN body.principal.pastor.s ELSE body[k].s

\* the securities stored for a validated body
StoredSecurities(body) ==
  Securities(Arr(body.securities.deacons.s), Arr(body.securities.trustees.s))

\* a church document with all the paths of ChurchSchema
ChurchDoc(owner, props, arrays, securities) ==
  [user |-> owner, arrays |-> arrays, securities |-> securities, props |-> props]

\* ChurchModel.create({ ...req.body, user: req.user.id })
createChurch(body, owner) ==
  ChurchDoc(owner, [k \in PropKeys |-> Stored(body, k)],
            [f \in Fields |-> Arr(body[f].s)], StoredSecurities(body))

\* an update that writes every key of the contract, the missing ones empty
findByIdAndUpdateWhole(doc, body) ==
  [doc EXCEPT
     !.props = [k \in PropKeys |->
                  IF k = "principal" THEN (IF body.principal.def THEN Stored(body, k) ELSE <<>>)
                  ELSE IF body[k].def THEN Stored(body, k) ELSE <<>>],
     !.arrays = [f \in Fields |-> IF body[f].def THEN Arr(body[f].s) ELSE Arr(<<>>)],
     !.securities = IF body.securities.def THEN StoredSecurities(body) ELSE @]

\* ChurchModel.findByIdAndUpdate(id, req.body): every key of the body is
\* set to its value, the other paths stay. The body is the one the client
\* sent (validateRequest parses it and drops the result), so a key user,
\* which the contract does not name, is written to the path user
findByIdAndUpdate(doc, body) ==
  [doc EXCEPT
     !.user = IF "user" \in DOMAIN body THEN body.user.s ELSE @,
     !.props = [k \in PropKeys |-> IF body[k].def THEN Stored(body, k) ELSE @[k]],
     !.arrays = [f \in Fields |-> IF body[f].def THEN Arr(body[f].s) ELSE @[f]],
     !.securities = IF body.securities.def THEN StoredSecurities(body) ELSE @]

\* a body that satisfies the creation contract, its values told apart by w
\* and n
ValidBody(w, n) ==
  [name |-> Str(<<"N", w>>), location |-> Str(<<"L", w>>),
   principal |-> PrincipalOf(Str(<<"P", w>>)),
   image |-> Str("http://1"), logo |-> Str("http://2"),
   banner |-> List(<<n>>),
   securities |-> SecuritiesOf(List(<<n>>), List(<<n, n + 1>>)),
   oldServices |-> List(<<n>>), liveServices |-> List(<<n, n + 1>>),
   gallery |-> List(<<n, n + 1>>), songs |-> List(<<n>>)]

\* a body without any key
EmptyBody ==
  [k \in StringKeys \cup ArrayKeys |-> Absent] @@ [k \in UrlKeys |-> AbsentWord]
  @@ [principal |-> AbsentPrincipal, securities |-> AbsentSecurities]

\* the ways a key of a body may fall short of the creation contract
Shortfalls(k) ==
  IF k \in StringKeys THEN {Absent, Str(<<>>)}
  ELSE IF k \in UrlKeys THEN {AbsentWord, Str("not a url")}
  ELSE IF k \in ArrayKeys THEN {Absent, List(<<>>)}
  ELSE IF k = "principal" THEN {AbsentPrincipal, PrincipalOf(Str(<<>>))}
  ELSE {AbsentSecurities, SecuritiesOf(List(<<>>), List(<<1>>)),
        SecuritiesOf(List(<<1>>), List(<<>>)), SecuritiesOf(Absent, List(<<1>>))}

\* a body with the key k set to x
With(body, k, x) == [body EXCEPT ![k] = x]

\* the bodies sent to POST /churches: a valid one, a valid one with one key
\* short of the contract, and one with two keys short of it
CreateBodies ==
  LET b == ValidBody("a", 1)
  IN {b, With(With(b, "name", Absent), "gallery", List(<<>>))}
     \cup UNION {{With(b, k, x) : x \in Shortfalls(k)} : k \in DOMAIN b}

\* the bodies sent to PATCH /churches/:id: none of the keys, one key with a
\* new valid value, one or two keys of which one is short of the contract
PatchBodies ==
  LET b == ValidBody("b", 3)
      one(k) == With(EmptyBody, k, b[k])
  IN {EmptyBody, With(one("name"), "gallery", b.gallery)}
     \cup {one(k) : k \in DOMAIN b}
     \cup {With(EmptyBody, "gallery", List(<<>>)), With(EmptyBody, "songs", List(<<>>)),
           With(EmptyBody, "name", Str(<<>>)), With(EmptyBody, "image", Str("not a url")),
           With(EmptyBody, "securities", SecuritiesOf(Absent, List(<<1>>))),
           With(one("name"), "songs", List(<<>>))}

\* a validateRequest that lets every body through
validateRequestPass(parsed) == [ok |-> TRUE, status |-> 0, errors |-> <<>>]

\* the local validateRequest of dashboardRoutes: on a ZodError it answers
\* 400 with the issues itself, { error: error.errors }
validateRequest(parsed) ==
  IF parsed.issues = <<>> THEN [ok |-> TRUE, status |-> 0, errors |-> <<>>]
  ELSE [ok |-> FALSE, status |-> 400, errors |-> parsed.issues]

\* the token of a user, fresh
Caller(u) == Bearer(generateToken(u, now))

\* a body with a key user besides the keys of the contract
WithUser(body, u) == body @@ [user |-> Str(u)]

\* who sends what to POST /churches: the first user every body and one that
\* names the second user as user, the second user and somebody without a
\* token a valid body and one with an empty gallery
PostCalls ==
  ({Caller("u1")} \X (CreateBodies \cup {WithUser(ValidBody("a", 1), "u2")}))
  \cup ({Caller("u2"), NoHeader}
        \X {ValidBody("a", 1), With(ValidBody("a", 1), "gallery", List(<<>>))})

\* POST /dashboard/churches: authenticateUser, validateRequest(createChurchSchema),
\* then ChurchModel.create
PostChurchReq ==
  \E c \in PostCalls :
    LET hdr == c[1]
        body == c[2]
        req == [Request("createChurch", hdr) EXCEPT !.body = body]
        a == authenticateUser(hdr, users, now)
        v == validateRequest(createChurchSchema(body))
    IN /\ served < MaxRequests
       /\ served' = served + 1
       /\ IF ~a.ok THEN last' = Rejected(req, a) /\ churches' = churches
          ELSE IF ~v.ok
          THEN /\ last' = [Handled(req, v.status, "", a.log \o <<"validateRequest">>, a.user)
                             EXCEPT !.errors = v.errors]
               /\ churches' = churches
          ELSE \E id \in ChurchIds \ DOMAIN churches :
                 /\ last' = [Handled(req, 201, "",
                                     a.log \o <<"validateRequest", "handler", "create">>, a.user)
                               EXCEPT !.churchId = id]
                 /\ churches' = Insert(churches, id, createChurch(body, a.user.id))
       /\ UNCHANGED <<users, now, approvedAt, inflight, production>>

\* who sends what to PATCH /churches/:id
PatchCalls ==
  ({Caller("u1")} \X ChurchIds
   \X (PatchBodies \cup {WithUser(EmptyBody, "u2"),
                         WithUser(With(EmptyBody, "name", Str(<<"N", "b">>)), "u1")}))
  \cup ({Caller("u2")} \X ChurchIds
        \X {With(EmptyBody, "name", Str(<<"N", "b">>)), With(EmptyBody, "gallery", List(<<>>))})
  \cup ({Caller("u1")} \X {MissingChurchId}
        \X {With(EmptyBody, "name", Str(<<"N", "b">>)), With(EmptyBody, "gallery", List(<<>>))})
  \cup ({NoHeader} \X ChurchIds \X {With(EmptyBody, "name", Str(<<"N", "b">>))})

\* PATCH /dashboard/churches/:id: authenticateUser, validateRequest(updateChurchSchema),
\* then findByIdAndUpdate, 404 when it finds nothing
PatchChurchReq ==
  \E c \in PatchCalls :
    LET hdr == c[1]
        id == c[2]
        body == c[3]
        req == [Request("patchChurch", hdr) EXCEPT !.churchId = id, !.body = body]
        a == authenticateUser(hdr, users, now)
        v == validateRequest(updateChurchSchema(body))
        log == a.log \o <<"validateRequest", "handler", "findByIdAndUpdate">>
    IN /\ served < MaxRequests
       /\ served' = served + 1
       /\ IF ~a.ok THEN last' = Rejected(req, a) /\ churches' = churches
          ELSE IF ~v.ok
          THEN /\ last' = [Handled(req, v.status, "", a.log \o <<"validateRequest">>, a.user)
                             EXCEPT !.errors = v.errors]
               /\ churches' = churches
          ELSE IF id \notin DOMAIN churches
          THEN last' = Handled(req, 404, "", log, a.user) /\ churches' = churches
          ELSE /\ last' = Handled(req, 200, "", log, a.user)
               /\ churches' = [churches EXCEPT ![id] = findByIdAndUpdate(@, body)]
       /\ UNCHANGED <<users, now, approvedAt, inflight, production>>

\* DELETE /dashboard/churches/:id by either user
DeleteChurchByCaller == DeleteChurchBy({Caller(u) : u \in UserIds}, TRUE)

\* DELETE of the first gallery item, or of one past the end, by either user
DeleteItemByCaller ==
  \E u \in UserIds, id \in ChurchIds, idx \in {<<"0">>, <<"5">>} :
    LET req == [Request("gallery", Caller(u)) EXCEPT
                  !.churchId = id, !.field = "gallery", !.idx = idx]
    IN NestedDelete(req, deleteNestedItem(churches, id, "gallery", idx))

\* DELETE of the first deacon by either user
DeleteDeaconByCaller ==
  \E u \in UserIds, id \in ChurchIds :
    LET req == [Request("deacon", Caller(u)) EXCEPT
                  !.churchId = id, !.field = "deacons", !.idx = <<"0">>]
    IN NestedDelete(req, deleteSecurityItem(churches, id, "deacons", <<"0">>))

\* the keys of a church document as JSON
ChurchKeys == {"_id", "user", "securities"} \cup PropKeys \cup Fields

\* a stored church as res.json serialises it
churchJSON(id, doc) ==
  [k \in ChurchKeys |->
     IF k = "_id" THEN <<id>>
     ELSE IF k = "user" THEN <<doc.user>>
     ELSE IF k = "securities" THEN <<doc.securities>>
     ELSE IF k \in PropKeys THEN <<doc.props[k]>>
     ELSE <<doc.arrays[k]>>]

\* a projection string of find: the paths it names, and _id
Selected(projection) == {"_id"} \cup projection

\* ChurchModel.find({}) without a projection: whole documents
findWhole(store, projection) ==
  {churchJSON(c, store[c]) : c \in DOMAIN store}

\* ChurchModel.find({}, projection): every document, cut to the selected paths
find(store, projection) ==
  {[k \in Selected(projection) |-> churchJSON(c, store[c])[k]] : c \in DOMAIN store}

\* GET /dashboard/public/churches: no middleware before getPublicChurchList,
\* which answers res.json(await ChurchModel.find({}, '_id name'))
PublicChurchListReq ==
  \E hdr \in {NoHeader, Caller("u2"), Header(<<Lit("Bearer")>>)} :
    LET req == Request("publicChurches", hdr)
    IN /\ last' = [Handled(req, 200, "", <<"handler", "find">>, NoUser) EXCEPT
                     !.data = find(churches, {"name"})]
       /\ UNCHANGED <<users, churches, now, approvedAt, served, inflight, production>>

\* two registered users, neither an administrator; no church, or one that
\* the first user created
InitChurch ==
  /\ users = [u \in UserIds |-> User(Emails[u], "pastor", FALSE)]
  /\ \E cs \in SUBSET ChurchIds :
       churches = [c \in cs |-> createChurch(ValidBody("a", 1), "u1")]
  /\ now = 0
  /\ approvedAt = [u \in UserIds |-> NoTime]
  /\ last = NoRequest
  /\ served = 0
  /\ inflight = {}
  /\ production = TRUE

NextChurch ==
  \/ PostChurchReq \/ PatchChurchReq \/ DeleteChurchByCaller
  \/ DeleteItemByCaller \/ DeleteDeaconByCaller \/ PublicChurchListReq

\* the church routes, called by the owner of a church and by another user
SpecChurch == InitChurch /\ [][NextChurch]_vars

---------------------------------------------------------------------------
(* The signup form as clients may fill it in *)

\* the forms sent to signup: each field of the form present and valid,
\* present and invalid, or missing
SignupForms ==
  {[firstName |-> f, lastName |-> Str(<<"D">>), email |-> e, password |-> p,
    language |-> Str("en"), role |-> r, churchSelection |-> c, admin |-> AbsentWord] :
     f \in {Absent, Str(<<>>), Str(<<"J">>)},
     e \in {Str("bad"), Str("a@x")},
     p \in {Str(<<"p">>), Str(Password1)},
     r \in {AbsentWord, Str("guest"), Str("user"), Str("pastor")},
     c \in {Absent, Str(<<" ">>), Str(<<"C">>)}}

\* signup with any form
SignupFormReq == SignupStart(SignupForms)

NextSignup == SignupFormReq \/ SignupCreate

SpecSignup == InitIdentity /\ [][NextSignup]_vars

---------------------------------------------------------------------------
(* Errors that reach the global error handler *)

\* the errors a middleware or a handler passes to next(): AppErrors of the
\* application, ZodErrors of validateRequest, the errors of mongoose and of
\* the driver, the errors of jwt.verify, and errors nobody foresaw
Thrown ==
  {AppError(m, c) : m \in {"Church not found", "You are not allowed"},
                    c \in {400, 401, 403, 404, 500}}
  \cup {ZodError(i) : i \in {<<Issue(<<"body", "email">>, "invalid_string", "Invalid email address")>>,
                             <<Issue(<<"body", "firstName">>, "invalid_type", "First name is required"),
                               Issue(<<"body", "role">>, "invalid_type", "Role is required")>>}}
  \cup {Err(k, k, m) : k \in {"CastError", "ValidationError"},
                       m \in {"Cast to ObjectId failed", "Path name is required."}}
  \cup {DuplicateKeyError,
        [Err("MongoServerError", "MongoServerError", "Document failed validation") EXCEPT
           !.code = 121]}
  \cup {Err("JsonWebTokenError", "JsonWebTokenError", m) : m \in {"jwt malformed", "invalid signature"}}
  \cup {Err("TokenExpiredError", "TokenExpiredError", "jwt expired")}
  \cup {Err(k, k, m) : k \in {"Error", "TypeError"},
                       m \in {"connect ECONNREFUSED", "Cannot read properties of undefined"}}

\* a request whose middleware or handler ends in next(err)
ThrowReq ==
  \E err \in Thrown :
    LET req == [Request("error", NoHeader) EXCEPT !.body = err]
    IN /\ served < MaxRequests
       /\ served' = served + 1
       /\ last' = Translated(req, err, <<"next(err)">>, NoUser)
       /\ UNCHANGED <<users, churches, now, approvedAt, inflight, production>>

NextErrors == ThrowReq

SpecErrors == InitIdentity /\ [][NextErrors]_vars

---------------------------------------------------------------------------
(* Best-effort side effects: the avatar upload and the emails *)

\* signup with a valid form, with or without a file, whose upload may fail
SignupWithFile ==
  SignupStartWith({b \in IdentityBodies : b.email.s # "A@x"}, {"", "uploaded", "upload.failed"})

\* the creation with any outcome of the two emails
SignupCreateAnyMail == SignupCreateWith(BOOLEAN \X BOOLEAN)

\* the approval sent by the administrator, with any outcome of the email
ApproveAnyMail == ApproveUserBy({Bearer(generateToken(InitialAdmin, now))}, FALSE)

NextEffects == SignupWithFile \/ SignupCreateAnyMail \/ ApproveAnyMail

SpecEffects == InitIdentity /\ [][NextEffects]_vars

---------------------------------------------------------------------------
(* The responses that carry identities *)

\* GET /auth/users/:id, public: findById(id).select('-password'), 404 through
\* next(AppError) when there is none
GetUserByIdReq ==
  \E id \in UserIds \cup {MissingUserId} :
    LET req == [Request("userById", NoHeader) EXCEPT !.target = id]
        log == <<"handler", "User.findById">>
    IN /\ served < MaxRequests
       /\ served' = served + 1
       /\ last' = IF id \in DOMAIN users
                  THEN [Handled(req, 200, "", log, NoUser) EXCEPT
                          !.identities = {select(identityDoc(id, users[id]), "-password")}]
                  ELSE Translated(req, AppError("No user found with that ID", 404), log, NoUser)
       /\ UNCHANGED <<users, churches, now, approvedAt, inflight, production>>

\* GET /dashboard/churches/:id: authenticateUser, then getChurch, which
\* populates the owner with populate('user', '-password'); the 404 is
\* answered by the handler itself
GetChurchReq ==
  \E hdr \in IdentityCallers, id \in ChurchIds \cup {MissingChurchId} :
    LET req == [Request("getChurch", hdr) EXCEPT !.churchId = id]
        a == authenticateUser(hdr, users, now)
        log == a.log \o <<"handler", "findById">>
    IN /\ served < MaxRequests
       /\ served' = served + 1
       /\ last' = IF ~a.ok THEN Rejected(req, a)
                  ELSE IF id \notin DOMAIN churches
                  THEN Handled(req, 404, "Church not found", log, a.user)
                  ELSE [Handled(req, 200, "", Append(log, "populate"), a.user) EXCEPT
                          !.identities =
                            {select(identityDoc(u, users[u]), "-password") :
                               u \in {churches[id].user} \cap DOMAIN users}]
       /\ UNCHANGED <<users, churches, now, approvedAt, inflight, production>>

\* the own record read by a holder of a fresh token
GetMeCounted ==
  /\ served < MaxRequests
  /\ GetMeBy(IdentityCallers)

\* the pending list asked by a holder of a fresh token
ListPendingCounted ==
  /\ served < MaxRequests
  /\ ListPendingUsersBy(IdentityCallers)

NextResponses ==
  \/ SignupReq \/ SignupCreate \/ LoginReq \/ UpdateMeReq \/ UpdateAvatarReq
  \/ GetMeCounted \/ GetUserByIdReq \/ ListPendingCounted \/ ApproveCounted
  \/ CreateChurchCounted \/ GetChurchReq

SpecResponses == InitIdentity /\ [][NextResponses]_vars

---------------------------------------------------------------------------
(* Nested deletions whose reads and saves interleave *)

\* a stored document with its version key: ChurchSchema is declared without
\* versionKey: false, so Mongoose keeps __v on every document
Versioned(doc, v) == doc @@ [version |-> v]

\* the indexes sent while requests interleave: in bounds and out of bounds
RaceIndexes == {<<"0">>, <<"1">>, <<"3">>}

\* the nested-deletion routes and the path each one splices
RaceRoutes ==
  {<<r, NestedRoutes[r]>> : r \in DOMAIN NestedRoutes}
  \cup {<<"deacon", "deacons">>, <<"trustee", "trustees">>}

\* the document a handler holds after array.splice(index, 1), before
\* church.save()
Spliced(church, path, indexStr) ==
  IF path \in Fields
  THEN [church EXCEPT !.arrays[path] = Arr(splice(@.items, ParseIndex(indexStr)))]
  ELSE [church EXCEPT !.securities[path] = Arr(splice(@.items, ParseIndex(indexStr)))]

\* the saves that have completed
Saves == Cardinality({e \in inflight : e.order # 0})

\* whether document.save() of the loaded document doc fails its version
\* check: splice registers a $set of the whole array, for which Mongoose adds
\* the loaded __v to the filter of the update and increments it; an update
\* that matches no document is a VersionError. A path that is not tracked
\* sends no update
VersionConflict(stored, doc, path) ==
  TrackedPath(path) /\ stored.version # doc.version

\* the store after church.save() of a handler that loaded doc
saveVersioned(store, churchId, doc, path) ==
  IF ~TrackedPath(path) \/ VersionConflict(store[churchId], doc, path) THEN store
  ELSE [store EXCEPT ![churchId].arrays[path] = doc.arrays[path],
                     ![churchId].version = @ + 1]

\* a nested deletion up to its await church.save(): authenticateUser, the
\* checks and the splice on the document findById loaded. A handler that
\* returns before save answers here; another waits with its document, the
\* status it has sent already (0 when none) and the number of saves it found
\* completed
RaceRead ==
  \E c \in ChurchIds, rf \in RaceRoutes, idx \in RaceIndexes :
    LET hdr == Bearer(generateToken("u1", now))
        req == [Request(rf[1], hdr) EXCEPT !.churchId = c, !.field = rf[2], !.idx = idx]
        a == authenticateUser(hdr, users, now)
        r == IF rf[2] \in Fields THEN deleteNestedItem(churches, c, rf[2], idx)
             ELSE deleteSecurityItem(churches, c, rf[2], idx)
        saves == \E k \in DOMAIN r.log : r.log[k] = "save"
        sent == IF \E k \in DOMAIN r.log :
                     r.log[k] = "res.json" /\ \E j \in (k + 1)..Len(r.log) : r.log[j] = "save"
                THEN r.status ELSE 0
    IN /\ served < MaxRequests
       /\ served' = served + 1
       /\ a.ok
       /\ IF saves
          THEN /\ inflight' = inflight \cup
                    {[n |-> served + 1, req |-> req, user |-> a.user, log |-> r.log,
                      doc |-> Spliced(churches[c], rf[2], idx), sent |-> sent,
                      seen |-> Saves, order |-> 0, status |-> 0]}
               /\ last' = last
          ELSE /\ inflight' = inflight
               /\ last' = Handled(req, r.status, "", a.log \o <<"handler">> \o r.log, a.user)
       /\ UNCHANGED <<users, churches, now, approvedAt, production>>

\* await church.save() of a waiting handler and what follows it: the 200,
\* or the VersionError that catchAsync passes to globalErrorHandler
RaceSave ==
  \E e \in inflight :
    LET c == e.req.churchId
        path == e.req.field
        conflict == VersionConflict(churches[c], e.doc, path)
        err == Err("VersionError", "VersionError", "No matching document found")
        answer == IF conflict
                  THEN Translated(e.req, err, <<"handler", "findById", "splice", "save",
                                                "VersionError">>, e.user)
                  ELSE Handled(e.req, 200, "", <<"handler">> \o e.log, e.user)
        status == IF e.sent # 0 THEN e.sent ELSE answer.status
    IN /\ e.status = 0
       /\ churches' = saveVersioned(churches, c, e.doc, path)
       /\ inflight' = (inflight \ {e}) \cup {[e EXCEPT !.status = status, !.order = Saves + 1]}
       /\ last' = [answer EXCEPT !.status = status]
       /\ UNCHANGED <<users, now, approvedAt, served, production>>

\* one registered user and one church of theirs at version 0
InitRace ==
  /\ users = [u \in {"u1"} |-> User(Emails[u], "pastor", FALSE)]
  /\ \E sec \in InitSecurities :
       churches = [c \in ChurchIds |->
                     Versioned(Church("u1", [f \in Fields |-> Arr(Full)], sec), 0)]
  /\ now = 0
  /\ approvedAt = [u \in UserIds |-> NoTime]
  /\ last = NoRequest
  /\ served = 0
  /\ inflight = {}
  /\ production = TRUE

NextRace == RaceRead \/ RaceSave

SpecRace == InitRace /\ [][NextRace]_vars

---------------------------------------------------------------------------
(* A store without an administrator *)

\* an empty store, or one with an identity that waits for approval
InitNoAdmin ==
  /\ \E present \in SUBSET {"u1"} :
       users = [u \in present |->
                  Identity(<<"A">>, "a@x", hash(Password1), "pastor", <<"C">>, "default", FALSE)]
  /\ churches = [c \in {} |-> NewChurch("u1")]
  /\ now = 0
  /\ approvedAt = [u \in UserIds |-> NoTime]
  /\ last = NoRequest
  /\ served = 0
  /\ inflight = {}
  /\ production = TRUE

\* signup, login, the routes on one's own record and the two admin routes
\* with every header
NextNoAdmin ==
  \/ SignupReq \/ SignupCreate \/ LoginReq \/ UpdateMeReq \/ UpdatePasswordReq
  \/ UpdateAvatarReq \/ ListPendingUsersReq \/ ApproveUserReq

SpecNoAdmin == InitNoAdmin /\ [][NextNoAdmin]_vars

---------------------------------------------------------------------------
(* Reading the record of the last request *)

\* how often a step occurs in a log
Count(log, what) == Cardinality({k \in DOMAIN log : log[k] = what})

\* the route handler was entered (authentication let the request through)
HandlerRan(l) == Count(l.log, "handler") = 1

\* the steps of the route handler itself
HandlerLog(l) ==
  LET h == CHOOSE k \in DOMAIN l.log : l.log[k] = "handler"
  IN SubSeq(l.log, h + 1, Len(l.log))

\* the header begins with "Bearer " (the scheme and the space after it)
StartsWithBearerSpace(hdr) ==
  /\ hdr.present
  /\ Len(hdr.parts) >= 2
  /\ hdr.parts[1] = Lit("Bearer")
  /\ hdr.parts[2] = Space

\* the tokens a header carries
CarriedTokens(hdr) == {hdr.parts[k].tok : k \in {j \in DOMAIN hdr.parts : hdr.parts[j].isTok}}

\* tk is signed by the server, names a subject and has not expired at time t
ValidAt(tk, t) == tk.sig = "good" /\ tk.hasId /\ t < ExpOf(tk)

\* the routes behind authenticateUser alone
AuthRoutes == {"me", "createChurch", "deleteChurch"}

\* the routes behind authenticateUser and isAdmin
AdminRoutes == {"pending", "approve"}

\* the store is as the last request found it
StoreUnchanged == users = last.preUsers /\ churches = last.preChurches

\* s is a decimal numeral (an optional sign, then digits only) of the integer i
Denotes(s, i) ==
  LET body == IF s # <<>> /\ s[1] \in {"-", "+"} THEN Tail(s) ELSE s
  IN /\ body # <<>>
     /\ \A k \in DOMAIN body : IsDigit(body[k])
     /\ i = (IF s[1] = "-" THEN 0 - DigitsValue(body, 0) ELSE DigitsValue(body, 0))

\* seq without the element at the zero-based position i
RemoveAt(seq, i) ==
  [k \in 1..(Len(seq) - 1) |-> IF k <= i THEN seq[k] ELSE seq[k + 1]]

\* the last request went through deleteNestedItem on a church that existed
NestedOnExisting ==
  /\ last.route \in DOMAIN NestedRoutes
  /\ HandlerRan(last)
  /\ last.churchId \in DOMAIN last.preChurches

\* the targeted root-level sequence before and after the last request
PreSeq == last.preChurches[last.churchId].arrays[last.field].items

PostSeq == churches[last.churchId].arrays[last.field].items

\* the index string is not a valid index into a sequence of length len
InvalidIndex(s, len) ==
  isNaN(ParseIndex(s)) \/ Lt(ParseIndex(s), 0) \/ Ge(ParseIndex(s), len)

---------------------------------------------------------------------------
(* Claims about the nested-deletion routes *)

C2_InvalidIndexRejected ==
  (NestedOnExisting /\ InvalidIndex(last.idx, Len(PreSeq))) =>
    /\ last.status = 400
    /\ churches = last.preChurches
    /\ Count(last.log, "save") = 0

\* the last request went through the deacon or trustee handler on a church
\* that existed
SecurityOnExisting ==
  /\ last.route \in {"deacon", "trustee"}
  /\ HandlerRan(last)
  /\ last.churchId \in DOMAIN last.preChurches

PreSecurities == last.preChurches[last.churchId].securities

\* C3 (as claimed): deacon and trustee deletion answer 400, remove nothing and
\* do not save when the index is invalid or the securities block is absent
\* or holds no sequence; with the index in bounds exactly that element is
\* removed from the stored sequence and the record is saved once.
C3_SecurityDeletionAsGeneric ==
  SecurityOnExisting =>
    IF \/ ~PreSecurities.present
       \/ ~IsArray(PreSecurities[last.field])
       \/ InvalidIndex(last.idx, Len(PreSecurities[last.field].items))
    THEN /\ last.status = 400
         /\ churches = last.preChurches
         /\ Count(last.log, "save") = 0
    ELSE /\ churches = [last.preChurches EXCEPT
                          ![last.churchId].securities[last.field] =
                             Arr(RemoveAt(PreSecurities[last.field].items,
                                          ParseIndex(last.idx).val))]
         /\ Count(last.log, "save") = 1

\* C4 (as claimed): the preconditions are checked in the order (a) index is a
\* non-negative integer, (b) record exists, (c) field is a sequence, (d)
\* index in bounds; the answer is that of the first one violated and nothing
\* later (lookup, splice, save) runs after it.
C4_PreconditionOrder ==
  (last.route \in DOMAIN NestedRoutes /\ HandlerRan(last)) =>
    LET index == ParseIndex(last.idx)
        h == HandlerLog(last)
    IN IF isNaN(index) \/ Lt(index, 0)
       THEN /\ last.status = 400
            /\ Count(h, "findById") = 0
            /\ Count(h, "splice") = 0
            /\ Count(h, "save") = 0
       ELSE IF last.churchId \notin DOMAIN last.preChurches
       THEN /\ last.status = 404
            /\ Count(h, "splice") = 0
            /\ Count(h, "save") = 0
       ELSE IF ~IsArray(last.preChurches[last.churchId].arrays[last.field])
       THEN /\ last.status = 500
            /\ Count(h, "splice") = 0
            /\ Count(h, "save") = 0
       ELSE IF Ge(index, Len(PreSeq))
       THEN /\ last.status = 400
            /\ Count(h, "splice") = 0
            /\ Count(h, "save") = 0
       ELSE last.status = 200

\* C5: nested deletion is not idempotent.  When a removal at index i from a
\* sequence of length n was answered 200 and the next request repeats it
\* (same route, church and index), that request removes the element that
\* stood at position i+1 when i < n-1, and is answered 400 with the sequence
\* unchanged when i = n-1.
C5_NotIdempotent ==
  [][ ( /\ NestedOnExisting
        /\ last.status = 200
        /\ last'.route = last.route
        /\ last'.churchId = last.churchId
        /\ last'.idx = last.idx
        /\ HandlerRan(last') ) =>
      LET i == ParseIndex(last.idx).val
          n == Len(PreSeq)
          f == last.field
          c == last.churchId
      IN IF i < n - 1
         THEN /\ last'.status = 200
              /\ churches'[c].arrays[f].items = RemoveAt(RemoveAt(PreSeq, i), i)
              /\ \A k \in 1..n : (k # i + 1 /\ k # i + 2) <=>
                     (\E j \in DOMAIN churches'[c].arrays[f].items :
                        churches'[c].arrays[f].items[j] = PreSeq[k])
         ELSE /\ last'.status = 400
              /\ churches' = churches ]_vars

\* a repeated request that removed the next element
C5_Witness ==
  /\ NestedOnExisting
  /\ last.repeat
  /\ last.status = 200
  /\ Len(PostSeq) = Len(PreSeq) - 1

---------------------------------------------------------------------------
(* Claims about authentication and the elevation check *)

\* C6 (as claimed): on an authenticated route a request without an
\* Authorization header, or with one that does not begin with "Bearer ", is
\* answered 401 "not logged in"; the token is never verified, the handler
\* does not run and the store is not modified.
C6_NoBearerPrefixRejected ==
  (last.route \in AuthRoutes /\ ~StartsWithBearerSpace(last.hdr)) =>
    /\ last.status = 401
    /\ last.msg = "You are not logged in. Please log in to get access."
    /\ Count(last.log, "jwt.verify") = 0
    /\ ~HandlerRan(last)
    /\ StoreUnchanged

C8_ExpiredToldApart ==
  last.route \in AuthRoutes =>
    \A tk \in CarriedTokens(last.hdr) :
      last.hdr = Bearer(tk) =>
        /\ tk.sig # "good" =>
             last.status = 401 /\ last.msg = "Invalid token. Please log in again."
        /\ (tk.sig = "good" /\ last.at >= ExpOf(tk)) =>
             /\ last.status = 401
             /\ last.msg = "Your token has expired. Please log in again."

\* the last request carried "Bearer <token>" with a valid token of a stored user
ValidBearer(l) ==
  \E tk \in CarriedTokens(l.hdr) :
    l.hdr = Bearer(tk) /\ ValidAt(tk, l.at) /\ tk.sub \in DOMAIN l.preUsers

\* the subject of the token of the last request
Subject(l) == (CHOOSE tk \in CarriedTokens(l.hdr) : TRUE).sub

\* C9: the admin handlers run only for an authenticated request whose
\* identity has admin = true in the store at that moment; admin = false is
\* answered 403, a failed authentication (a missing identity among them) 401;
\* neither the flag the client supplies nor a claim of the token plays a part.
C9_AdminGateReadsStore ==
  last.route \in AdminRoutes =>
    IF ~ValidBearer(last)
    THEN last.status = 401 /\ ~HandlerRan(last) /\ StoreUnchanged
    ELSE IF last.preUsers[Subject(last)].admin
    THEN /\ HandlerRan(last)
         /\ SubSeq(last.log, 1, 4) =
              <<"jwt.verify", "User.findById", "isAdmin.findById", "handler">>
    ELSE last.status = 403 /\ ~HandlerRan(last) /\ StoreUnchanged

\* a user who is not an administrator claimed to be one twice over and got 403
C9_Witness ==
  /\ last.route = "approve"
  /\ ValidBearer(last)
  /\ last.flag
  /\ TokenAdminClaim(last.hdr)
  /\ ~last.preUsers[Subject(last)].admin
  /\ last.status = 403

\* C10: an identity without the flag gets 403 on an admin route; once an
\* approval has set its flag, its request succeeds with any unexpired token,
\* one issued before the approval as well as one issued after it.
C10_ElevationWithoutReissue ==
  (last.route \in AdminRoutes /\ ValidBearer(last)) =>
    LET u == Subject(last)
    IN /\ ~last.preUsers[u].admin => last.status = 403
       /\ (last.preUsers[u].admin /\ approvedAt[u] # NoTime) =>
            /\ HandlerRan(last)
            /\ last.status = IF last.route = "approve" /\ last.target \notin DOMAIN last.preUsers
                             THEN 404 ELSE 200

\* an approved user listed the pending users with a token older than the approval
C10_Witness ==
  /\ last.route = "pending"
  /\ ValidBearer(last)
  /\ approvedAt[Subject(last)] # NoTime
  /\ \E tk \in CarriedTokens(last.hdr) : tk.iat < approvedAt[Subject(last)]
  /\ last.status = 200

---------------------------------------------------------------------------
(* Claims about identities, ownership and validation *)

\* C11: the admin flag is set only by the approval: an identity that signup
\* has just created has admin = false whatever its form held, and in every
\* state an identity with admin = true either is the administrator the store
\* started with or was the target of an executed approve-user action.
C11_AdminOnlyByApproval ==
  /\ \A u \in DOMAIN users :
       users[u].admin => (u = InitialAdmin \/ approvedAt[u] # NoTime)
  /\ (last.route = "signup" /\ last.status = 201) =>
       /\ last.target \notin DOMAIN last.preUsers
       /\ approvedAt[last.target] = NoTime => ~users[last.target].admin

\* a signup whose form carried admin: "true" created an identity
C11_Witness ==
  /\ last.route = "signup"
  /\ last.status = 201
  /\ last.body.admin = Str("true")
  /\ ~users[last.target].admin

\* the routes that change a stored church
ChurchMutations == {"patchChurch", "deleteChurch", "gallery", "deacon"}

\* C12 (as claimed): a PATCH, DELETE or nested deletion on a church whose
\* owner is not the authenticated caller leaves the stored record unchanged.
C12_OnlyCreatorMutates ==
  (/\ last.route \in ChurchMutations
   /\ ValidBearer(last)
   /\ last.churchId \in DOMAIN last.preChurches
   /\ last.preChurches[last.churchId].user # Subject(last))
  => churches = last.preChurches

\* the paths of a POST body that are omitted, or hold an empty array
ShortPaths(body) ==
  {<<k>> : k \in {j \in DOMAIN body : ~body[j].def}}
  \cup {<<k>> : k \in {j \in ArrayKeys : body[j].def /\ body[j].s = <<>>}}
  \cup (IF body.principal.def /\ ~body.principal.pastor.def
        THEN {<<"principal", "pastor">>} ELSE {})
  \cup (IF body.securities.def
        THEN {<<"securities", k>> :
                k \in {j \in SecurityFields :
                         ~body.securities[j].def \/ body.securities[j].s = <<>>}}
        ELSE {})

\* the paths the issues of the last response name
NamedPaths == {last.errors[i].path : i \in DOMAIN last.errors}

\* C13: a POST /dashboard/churches of an authenticated caller whose body
\* omits a required field or holds an empty array for banner, gallery,
\* securities.deacons, securities.trustees, oldServices, liveServices or
\* songs is answered 400 with a violation naming each such path, and no
\* church is created.
C13_CreateRejectsShortBody ==
  (last.route = "createChurch" /\ ValidBearer(last) /\ ShortPaths(last.body) # {}) =>
    /\ last.status = 400
    /\ ShortPaths(last.body) \subseteq NamedPaths
    /\ churches = last.preChurches
    /\ Count(last.log, "create") = 0

\* a body whose securities.deacons is empty was refused with that path named
C13_Witness ==
  /\ last.route = "createChurch"
  /\ ValidBearer(last)
  /\ last.body.securities.def
  /\ last.body.securities.deacons = List(<<>>)
  /\ last.status = 400
  /\ <<"securities", "deacons">> \in NamedPaths

\* a supplied key of a PATCH body that breaks a format constraint of the
\* creation contract: an empty string or array, a malformed URL, an
\* incomplete principal or securities object
BreaksFormat(body) ==
  \/ \E k \in StringKeys \cup ArrayKeys : body[k].def /\ body[k].s = <<>>
  \/ \E k \in UrlKeys : body[k].def /\ body[k].s \notin {"http://1", "http://2"}
  \/ body.principal.def /\ (~body.principal.pastor.def \/ body.principal.pastor.s = <<>>)
  \/ /\ body.securities.def
     /\ \E k \in SecurityFields : ~body.securities[k].def \/ body.securities[k].s = <<>>

\* the value of a key of the contract read from a stored church
StoredAt(doc, k) ==
  IF k \in Fields THEN doc.arrays[k].items
  ELSE IF k = "securities" THEN <<doc.securities.deacons.items, doc.securities.trustees.items>>
  ELSE doc.props[k]

\* the value a PATCH body supplies for a key
SuppliedAt(body, k) ==
  IF k = "securities" THEN <<body.securities.deacons.s, body.securities.trustees.s>>
  ELSE IF k = "principal" THEN body.principal.pastor.s
  ELSE body[k].s

\* C16: PATCH /dashboard/churches/:id by an authenticated caller: a body
\* that breaks a format constraint is answered 400 and changes nothing; else
\* an id without a record is answered 404; else every supplied key holds the
\* supplied value afterwards and every other key its stored value, the owner
\* among them.
C16_PatchIsPartialOverlay ==
  (last.route = "patchChurch" /\ ValidBearer(last)) =>
    IF BreaksFormat(last.body)
    THEN last.status = 400 /\ churches = last.preChurches
    ELSE IF last.churchId \notin DOMAIN last.preChurches
    THEN last.status = 404 /\ churches = last.preChurches
    ELSE /\ last.status = 200
         /\ DOMAIN churches = DOMAIN last.preChurches
         /\ \A c \in DOMAIN churches \ {last.churchId} : churches[c] = last.preChurches[c]
         /\ churches[last.churchId].user =
              IF "user" \in DOMAIN last.body THEN last.body.user.s
              ELSE last.preChurches[last.churchId].user
         /\ \A k \in DOMAIN last.body \ {"user"} :
              StoredAt(churches[last.churchId], k) =
                IF last.body[k].def THEN SuppliedAt(last.body, k)
                ELSE StoredAt(last.preChurches[last.churchId], k)

\* a PATCH with a new gallery and no name replaced the one and kept the other
C16_Witness ==
  /\ last.route = "patchChurch"
  /\ last.status = 200
  /\ last.body.gallery.def
  /\ ~last.body.name.def
  /\ churches[last.churchId].arrays["gallery"] # last.preChurches[last.churchId].arrays["gallery"]
  /\ churches[last.churchId].props["name"] = last.preChurches[last.churchId].props["name"]

\* where a step stands in a log (0 when it does not occur)
Position(log, what) ==
  IF Count(log, what) = 0 THEN 0
  ELSE CHOOSE k \in DOMAIN log : log[k] = what /\ \A j \in 1..(k - 1) : log[j] # what

\* the routes with a validator and an authenticator
ValidatedRoutes == {"createChurch", "patchChurch"}

Blank(s) == \A i \in DOMAIN s : s[i] = " "

\* the fields of a signup form whose rule the form violates: a per-field
\* rule, or for churchSelection the cross-field rule
ViolatedRules(body) ==
  {k \in {"firstName", "lastName"} : ~body[k].def \/ body[k].s = <<>>}
  \cup (IF ~body.email.def \/ body.email.s \notin {"a@x", "A@x", "b@x"} THEN {"email"} ELSE {})
  \cup (IF ~body.password.def \/ Len(body.password.s) < 8 THEN {"password"} ELSE {})
  \cup (IF ~body.language.def \/ body.language.s \notin {"en", "fr"} THEN {"language"} ELSE {})
  \cup (IF ~body.role.def \/ body.role.s \notin {"user", "pastor", "IT"} THEN {"role"} ELSE {})
  \cup (IF /\ body.role.def
           /\ body.role.s \in {"pastor", "IT"}
           /\ (~body.churchSelection.def \/ Blank(body.churchSelection.s))
        THEN {"churchSelection"} ELSE {})

\* the fields the violations of the last response are on
ReportedFields == {last.errors[i].path[2] : i \in DOMAIN last.errors}

\* C14 (as claimed): the violations reported for a signup form are one per
\* violated rule, the cross-field rule on churchSelection included when
\* per-field checks of the same form have failed.
C14_ValidationExhaustive ==
  (last.route = "signup" /\ ViolatedRules(last.body) # {}) =>
    /\ last.status = 400
    /\ ReportedFields = ViolatedRules(last.body)
    /\ Len(last.errors) = Cardinality(ViolatedRules(last.body))

\* C15 (as claimed): a signup with role pastor or IT and an absent, empty or
\* blank churchSelection is answered 400 with a violation on churchSelection
\* and creates no identity; a signup with role "user" is never given a
\* violation on churchSelection.
C15_AffiliationRequired ==
  last.route = "signup" =>
    /\ ("churchSelection" \in ViolatedRules(last.body)) =>
         /\ last.status = 400
         /\ "churchSelection" \in ReportedFields
         /\ users = last.preUsers
    /\ (last.body.role = Str("user")) => "churchSelection" \notin ReportedFields


\* C18 (as claimed): every failure is answered by the central error
\* translator with the uniform envelope, whose status is "fail" for a 4xx
\* code and "error" for a 5xx code; no route formats an error locally.
C18_UniformEnvelope ==
  last.status >= 400 =>
    last.envelope = (IF last.status < 500 THEN "fail" ELSE "error")


\* the error kinds the translator counts as operational
Operational(err) ==
  \/ err.class \in {"AppError", "ZodError", "CastError", "ValidationError"}
  \/ err.code = 11000
  \/ err.name \in {"JsonWebTokenError", "TokenExpiredError"}

\* the status code of an operational error: an application error's own, 401
\* for a token error, 400 for the others
KindCode(err) ==
  IF err.class = "AppError" THEN err.statusCode
  ELSE IF err.name \in {"JsonWebTokenError", "TokenExpiredError"} THEN 401
  ELSE 400

\* the message an error comes with: its own, for a request-validation error
\* the list of its violations
OwnMessage(err) ==
  IF err.class = "ZodError" THEN "Invalid input data: <path - message; ...>" ELSE err.message

GenericMessage == "Something went very wrong!"

\* C19: in production the translator answers an operational error
\* (application error, request-validation error, malformed id, store
\* validation failure, uniqueness conflict, token error) with its status
\* code and the message it came with, and every other error with 500 and
\* the fixed generic message, without the original message, the violations
\* or a stack; outside production the answer carries the message and the
\* stack of every error.
C19_ProductionHidesUnexpected ==
  last.route = "error" =>
    LET err == last.body
    IN IF production
       THEN IF Operational(err)
            THEN /\ last.status = KindCode(err)
                 /\ last.msg = OwnMessage(err)
                 /\ last.errors = err.errors
                 /\ ~last.stack
            ELSE /\ last.status = 500
                 /\ last.msg = GenericMessage
                 /\ last.msg # err.message
                 /\ last.errors = <<>>
                 /\ ~last.stack
       ELSE /\ last.status = (IF Operational(err) THEN KindCode(err) ELSE 500)
            /\ last.msg = OwnMessage(err)
            /\ last.stack

\* in production a TypeError was answered 500 with the generic message
C19_Witness ==
  /\ production
  /\ last.route = "error"
  /\ last.body.class = "TypeError"
  /\ last.status = 500
  /\ last.msg = GenericMessage


\* two addresses that are equal when case is ignored
SameIgnoringCase(e, f) == e = f \/ {e, f} = {"a@x", "A@x"}

\* the identities of a store, other than one, whose address is e but for case
Holders(usrs, e, but) ==
  {u \in DOMAIN usrs \ {but} : SameIgnoringCase(usrs[u].email, e)}

\* C20: whatever signups and updateMe requests were served and however they
\* interleaved, no two stored identities have emails equal ignoring case;
\* a signup, or an email change of an authenticated caller, whose address
\* another identity holds but for case is answered 400 and stores nothing.
C20_EmailsUniqueIgnoringCase ==
  /\ \A u, v \in DOMAIN users :
       u # v => ~SameIgnoringCase(users[u].email, users[v].email)
  /\ (last.route = "signup" /\ Holders(last.preUsers, last.body.email.s, "") # {}) =>
       last.status = 400 /\ users = last.preUsers
  /\ (/\ last.route = "updateMe"
      /\ ValidBearer(last)
      /\ last.body.email.def
      /\ Holders(last.preUsers, last.body.email.s, Subject(last)) # {}) =>
       last.status = 400 /\ users = last.preUsers

\* a signup with A@x that passed the lookup while a@x was free, and whose
\* creation the store refused because a@x had been stored meanwhile
C20_Witness ==
  /\ last.route = "signup"
  /\ last.body.email = Str("A@x")
  /\ Count(last.log, "User.create") > 0
  /\ last.status = 400
  /\ \E u \in DOMAIN users : users[u].email = "a@x"
  /\ users = last.preUsers


\* the failures of best-effort steps a signup logged
FailedEffects(log) ==
  {x \in {"upload.failed", "welcome.failed", "notify.failed", "email.failed"} : Count(log, x) > 0}

\* C21: best-effort side effects do not abort the primary operation: a
\* signup whose creation the store accepts responds 201 and stores the
\* identity even when the avatar upload, the welcome email or the admin
\* notification fails; an approval of an existing identity responds 200 and
\* stores admin = true even when the approval email fails.
C21_BestEffortSideEffects ==
  /\ (/\ last.route = "signup"
      /\ Count(last.log, "User.create") > 0
      /\ Holders(last.preUsers, last.body.email.s, "") = {}) =>
       /\ last.status = 201
       /\ last.target \in DOMAIN users \ DOMAIN last.preUsers
       /\ SameIgnoringCase(users[last.target].email, last.body.email.s)
  /\ (/\ last.route = "approve"
      /\ HandlerRan(last)
      /\ last.target \in DOMAIN last.preUsers) =>
       /\ last.status = 200
       /\ users[last.target].admin

\* a pastor's signup whose upload and both emails failed was answered 201
C21_Witness ==
  /\ last.route = "signup"
  /\ last.status = 201
  /\ FailedEffects(last.log) = {"upload.failed", "welcome.failed", "notify.failed"}
  /\ last.target \in DOMAIN users


\* C22: GET /dashboard/public/churches answers every caller, with or
\* without a token, 200 with one entry for each stored church that carries
\* the church's id and name and no other key.
C22_PublicListIdAndName ==
  last.route = "publicChurches" =>
    /\ last.status = 200
    /\ \A d \in last.data : DOMAIN d = {"_id", "name"}
    /\ \A c \in DOMAIN last.preChurches :
         \E d \in last.data :
           d["_id"] = <<c>> /\ d["name"] = <<last.preChurches[c].props["name"]>>
    /\ Cardinality(last.data) = Cardinality(DOMAIN last.preChurches)

\* somebody without a token was given the entry of a stored church
C22_Witness ==
  /\ last.route = "publicChurches"
  /\ ~last.hdr.present
  /\ last.data # {}
  /\ DOMAIN last.preChurches # {}


\* C23 (as claimed): PATCH /auth/update-password of an authenticated
\* identity with the correct current password and a new password of at
\* least 8 characters equal to its confirmation is answered 200 and stores
\* the new credential, which a login then matches and the old one does not;
\* with a wrong current password it is answered 401, with a mismatching
\* confirmation 400, and the stored credential is unchanged.
C23_PasswordChange ==
  (last.route = "updatePassword" /\ ValidBearer(last)) =>
    LET me == Subject(last)
        b == last.body
        right == comparePassword(b.currentPassword.s, last.preUsers[me].password)
    IN IF b.newPassword.s # b.confirmPassword.s
       THEN last.status = 400 /\ users = last.preUsers
       ELSE IF ~right
       THEN last.status = 401 /\ users = last.preUsers
       ELSE Len(b.newPassword.s) >= 8 =>
              /\ last.status = 200
              /\ comparePassword(b.newPassword.s, users[me].password)
              /\ (b.newPassword.s # b.currentPassword.s =>
                    ~comparePassword(b.currentPassword.s, users[me].password))


\* the identities of a store that hold an address (but for case) and, when
\* withPassword, whose credential is that of the password
Matching(usrs, email, password, withPassword) ==
  {u \in Holders(usrs, email, "") : withPassword => usrs[u].password = [bcrypt |-> password]}

\* C24: POST /auth/login with a well-formed email and a password is
\* answered 200 with a token whose subject is the identity's id exactly
\* when an identity holds that email and the password matches its stored
\* credential; otherwise 401 with one message, the same for an unknown
\* email and for a wrong password; the store is never modified.
C24_LoginByCredentials ==
  (/\ last.route = "login"
   /\ last.body.email.s \in {"a@x", "A@x", "b@x"}
   /\ last.body.password.s # <<>>) =>
    LET known == Matching(last.preUsers, last.body.email.s, last.body.password.s, FALSE)
        right == Matching(last.preUsers, last.body.email.s, last.body.password.s, TRUE)
    IN /\ users = last.preUsers
       /\ IF right # {}
          THEN /\ last.status = 200
               /\ {tk.sub : tk \in last.data} = right
               /\ Cardinality(last.data) = 1
          ELSE /\ last.status = 401
               /\ last.msg = "Incorrect email or password"
               /\ last.data = {}

\* a login with the address of an identity and a wrong password was refused
C24_Witness ==
  /\ last.route = "login"
  /\ last.status = 401
  /\ Matching(last.preUsers, last.body.email.s, last.body.password.s, FALSE) # {}
  /\ Matching(last.preUsers, last.body.email.s, last.body.password.s, TRUE) = {}


\* the routes whose responses carry identities
IdentityRoutes ==
  {"signup", "login", "me", "updateMe", "updateAvatar", "userById", "pending", "approve",
   "getChurch"}

\* C25: no response contains an identity's password, hashed or plain:
\* every identity serialised by signup, login, me, updateMe, update-avatar,
\* get-user-by-id, the pending list, the approval and a church fetch that
\* populates its owner is without the password path.
C25_PasswordNeverSerialised ==
  /\ last.identities # {} => last.route \in IdentityRoutes
  /\ \A d \in last.identities : "password" \notin DOMAIN d

\* a login, whose query loads the password, answered with the identity
C25_Witness ==
  /\ last.route = "login"
  /\ last.status = 200
  /\ \E d \in last.identities : "email" \in DOMAIN d


\* the nested-deletion routes
DeletionRoutes == DOMAIN NestedRoutes \cup {"deacon", "trustee"}

\* C26 (as claimed): a nested-deletion handler sends exactly one response on
\* every path, and once it has sent an error response (400, 404 or 500) it
\* performs no further lookup, splice, save or response.
C26_ExactlyOneResponse ==
  (last.route \in DeletionRoutes /\ HandlerRan(last)) =>
    /\ Count(last.log, "res.json") = 1
    /\ Count(last.log, "ERR_HTTP_HEADERS_SENT") = 0
    /\ last.status >= 400 => last.log[Len(last.log)] = "res.json"

\* C27: the owner of a church is the identity authenticated on the POST
\* that created it: a church created by the last request is owned by the
\* bearer of its token, whatever user the body named, and a church that
\* existed before the last request, a PATCH with a key user included, has the
\* owner it had.
C27_OwnerIsCreator ==
  /\ (last.route = "createChurch" /\ last.status = 201) =>
       churches[last.churchId].user = Subject(last)
  /\ last.route # "none" =>
       \A c \in DOMAIN churches \cap DOMAIN last.preChurches :
         churches[c].user = last.preChurches[c].user

\* the sequence at the path of a nested deletion in a church document
SequenceAt(doc, path) ==
  IF path \in Fields THEN doc.arrays[path].items ELSE doc.securities[path].items

\* C28: two nested deletions on one church that both loaded the record
\* before either saved, and both reached save with nothing sent: both are
\* answered 200, and the stored sequence is the one the later save held.
C28_LastWriteWins ==
  \A a, b \in inflight :
    (/\ a.order # 0 /\ b.order # 0 /\ a.order < b.order
     /\ a.seen = 0 /\ b.seen = 0
     /\ a.sent = 0 /\ b.sent = 0
     /\ a.req.churchId = b.req.churchId) =>
      /\ a.status = 200
      /\ b.status = 200
      /\ SequenceAt(churches[b.req.churchId], b.req.field) = SequenceAt(b.doc, b.req.field)

\* C29: a nested deletion of index 0, by the bearer of a valid token, on a
\* church whose sequence at that path (gallery, songs, oldServices,
\* liveServices, securities.deacons, securities.trustees) has one element is
\* answered 200 and leaves the stored sequence empty.
C29_DeletionEmptiesRequired ==
  (/\ last.route \in DeletionRoutes
   /\ ValidBearer(last)
   /\ last.idx = <<"0">>
   /\ last.churchId \in DOMAIN last.preChurches
   /\ Len(SequenceAt(last.preChurches[last.churchId], last.field)) = 1) =>
    /\ last.status = 200
    /\ last.churchId \in DOMAIN churches
    /\ SequenceAt(churches[last.churchId], last.field) = <<>>

\* C30: from a store without an administrator no request makes one: no
\* stored identity has admin = TRUE, and GET /admin/users/pending and
\* PATCH /admin/users/:userId/approve are answered 401 or 403.
C30_NoAdminFromNone ==
  /\ \A u \in DOMAIN users : ~users[u].admin
  /\ last.route \in {"pending", "approve"} => last.status \in {401, 403}

\* a registered identity with a valid token and an admin key of its own
\* asked for the approval of a registered identity and was answered 403
C30_Witness ==
  /\ last.route = "approve"
  /\ ValidBearer(last)
  /\ last.flag
  /\ last.target \in DOMAIN users
  /\ last.status = 403
  /\ ~users[last.target].admin

====
